---------------------------- MODULE Spec2Model ----------------------------
(***************************************************************************)
(* Model of gitsplain's symbol extraction engine                           *)
(* (src/gitsplain/services/ast_parser.py): the language registry, the      *)
(* test-file classifier, the per-instance parser cache, the depth-bounded  *)
(* tree walker and the extract_symbols / extract_from_files facade.        *)
(*                                                                         *)
(* Text (paths, identifiers, docstrings) is a sequence of one-character    *)
(* strings.  A parsed file is the syntax tree tree-sitter hands back: a    *)
(* node is a record [type, row, text, children].  Python's None is the     *)
(* record None, a present value v is Some(v).                              *)
(***************************************************************************)
EXTENDS Integers, Sequences, FiniteSets, TLC

VARIABLES
    parsers,     \* ASTParser._parsers: grammar id -> parser handle
    available,   \* environment: grammar ids tree_sitter_language_pack can build
    builds,      \* grammar id -> number of calls made to the pack's get_parser
    call,        \* the last operation called on the instance and its arguments
    result,      \* what that operation returned
    state,       \* DiagramGenerator.state, None where no generator is constructed
    session_state \* st.session_state of the wizard, None where no page is open

vars == <<parsers, available, builds, call, result, state, session_state>>

None == [some |-> FALSE]
Some(v) == [some |-> TRUE, val |-> v]

----------------------------------------------------------------------------
(* Language registry: module-level tables.                                 *)

EXTENSION_TO_LANGUAGE ==
       (<<".", "p", "y">> :> "python")
    @@ (<<".", "p", "y", "i">> :> "python")
    @@ (<<".", "j", "s">> :> "javascript")
    @@ (<<".", "j", "s", "x">> :> "javascript")
    @@ (<<".", "t", "s">> :> "typescript")
    @@ (<<".", "t", "s", "x">> :> "tsx")
    @@ (<<".", "g", "o">> :> "go")
    @@ (<<".", "r", "s">> :> "rust")
    @@ (<<".", "j", "a", "v", "a">> :> "java")
    @@ (<<".", "k", "t">> :> "kotlin")
    @@ (<<".", "c">> :> "c")
    @@ (<<".", "h">> :> "c")
    @@ (<<".", "c", "p", "p">> :> "cpp")
    @@ (<<".", "h", "p", "p">> :> "cpp")
    @@ (<<".", "c", "c">> :> "cpp")
    @@ (<<".", "c", "s">> :> "c_sharp")
    @@ (<<".", "r", "b">> :> "ruby")
    @@ (<<".", "p", "h", "p">> :> "php")
    @@ (<<".", "s", "w", "i", "f", "t">> :> "swift")
    @@ (<<".", "s", "c", "a", "l", "a">> :> "scala")

CLASS_NODE_TYPES ==
       ("python" :> {"class_definition"})
    @@ ("javascript" :> {"class_declaration"})
    @@ ("typescript" :> {"class_declaration", "interface_declaration", "type_alias_declaration"})
    @@ ("tsx" :> {"class_declaration", "interface_declaration", "type_alias_declaration"})
    @@ ("go" :> {"type_declaration"})
    @@ ("rust" :> {"struct_item", "trait_item"})
    @@ ("java" :> {"class_declaration", "interface_declaration"})
    @@ ("kotlin" :> {"class_declaration", "object_declaration", "interface_declaration"})
    @@ ("c" :> {"struct_specifier"})
    @@ ("cpp" :> {"class_specifier", "struct_specifier"})
    @@ ("c_sharp" :> {"class_declaration", "interface_declaration", "struct_declaration"})
    @@ ("ruby" :> {"class"})
    @@ ("php" :> {"class_declaration", "interface_declaration", "trait_declaration"})
    @@ ("swift" :> {"class_declaration", "struct_declaration", "protocol_declaration"})
    @@ ("scala" :> {"class_definition", "object_definition", "trait_definition"})

FUNCTION_NODE_TYPES ==
       ("python" :> {"function_definition"})
    @@ ("javascript" :> {"function_declaration", "arrow_function", "method_definition"})
    @@ ("typescript" :> {"function_declaration", "arrow_function", "method_definition"})
    @@ ("tsx" :> {"function_declaration", "arrow_function", "method_definition"})
    @@ ("go" :> {"function_declaration", "method_declaration"})
    @@ ("rust" :> {"function_item"})
    @@ ("java" :> {"method_declaration", "constructor_declaration"})
    @@ ("kotlin" :> {"function_declaration"})
    @@ ("c" :> {"function_definition"})
    @@ ("cpp" :> {"function_definition"})
    @@ ("c_sharp" :> {"method_declaration", "constructor_declaration"})
    @@ ("ruby" :> {"method", "singleton_method"})
    @@ ("php" :> {"function_definition", "method_declaration"})
    @@ ("swift" :> {"function_declaration"})
    @@ ("scala" :> {"function_definition"})

TEST_DIR_PATTERNS ==
    {<<"t", "e", "s", "t">>,
     <<"t", "e", "s", "t", "s">>,
     <<"_", "_", "t", "e", "s", "t", "s", "_", "_">>,
     <<"s", "p", "e", "c">>,
     <<"s", "p", "e", "c", "s">>,
     <<"t", "e", "s", "t", "i", "n", "g">>}

TEST_FILE_PATTERNS ==
       (<<".", "p", "y">> :> <<<<"t", "e", "s", "t", "_">>, <<"_", "t", "e", "s", "t", ".", "p", "y">>, <<"c", "o", "n", "f", "t", "e", "s", "t", ".", "p", "y">>>>)
    @@ (<<".", "j", "s">> :> <<<<".", "t", "e", "s", "t", ".", "j", "s">>, <<".", "s", "p", "e", "c", ".", "j", "s">>, <<"_", "t", "e", "s", "t", ".", "j", "s">>>>)
    @@ (<<".", "j", "s", "x">> :> <<<<".", "t", "e", "s", "t", ".", "j", "s", "x">>, <<".", "s", "p", "e", "c", ".", "j", "s", "x">>>>)
    @@ (<<".", "t", "s">> :> <<<<".", "t", "e", "s", "t", ".", "t", "s">>, <<".", "s", "p", "e", "c", ".", "t", "s">>, <<"_", "t", "e", "s", "t", ".", "t", "s">>>>)
    @@ (<<".", "t", "s", "x">> :> <<<<".", "t", "e", "s", "t", ".", "t", "s", "x">>, <<".", "s", "p", "e", "c", ".", "t", "s", "x">>>>)
    @@ (<<".", "g", "o">> :> <<<<"_", "t", "e", "s", "t", ".", "g", "o">>>>)
    @@ (<<".", "r", "s">> :> <<<<"_", "t", "e", "s", "t", ".", "r", "s">>>>)
    @@ (<<".", "j", "a", "v", "a">> :> <<<<"T", "e", "s", "t", ".", "j", "a", "v", "a">>, <<"T", "e", "s", "t", "s", ".", "j", "a", "v", "a">>>>)
    @@ (<<".", "k", "t">> :> <<<<"T", "e", "s", "t", ".", "k", "t">>, <<"T", "e", "s", "t", "s", ".", "k", "t">>>>)
    @@ (<<".", "r", "b">> :> <<<<"_", "s", "p", "e", "c", ".", "r", "b">>, <<"_", "t", "e", "s", "t", ".", "r", "b">>>>)
    @@ (<<".", "p", "h", "p">> :> <<<<"T", "e", "s", "t", ".", "p", "h", "p">>, <<"T", "e", "s", "t", "s", ".", "p", "h", "p">>>>)
    @@ (<<".", "c", "s">> :> <<<<"T", "e", "s", "t", "s", ".", "c", "s">>, <<"T", "e", "s", "t", ".", "c", "s">>>>)
    @@ (<<".", "s", "w", "i", "f", "t">> :> <<<<"T", "e", "s", "t", "s", ".", "s", "w", "i", "f", "t">>, <<"T", "e", "s", "t", ".", "s", "w", "i", "f", "t">>>>)
    @@ (<<".", "s", "c", "a", "l", "a">> :> <<<<"T", "e", "s", "t", ".", "s", "c", "a", "l", "a">>, <<"S", "p", "e", "c", ".", "s", "c", "a", "l", "a">>>>)

kind_map ==
       ("class_definition" :> "class")
    @@ ("class_declaration" :> "class")
    @@ ("class_specifier" :> "class")
    @@ ("object_declaration" :> "class")
    @@ ("object_definition" :> "class")
    @@ ("struct_specifier" :> "struct")
    @@ ("struct_item" :> "struct")
    @@ ("struct_declaration" :> "struct")
    @@ ("type_declaration" :> "struct")
    @@ ("interface_declaration" :> "interface")
    @@ ("trait_item" :> "interface")
    @@ ("trait_definition" :> "interface")
    @@ ("protocol_declaration" :> "interface")
    @@ ("type_alias_declaration" :> "interface")

----------------------------------------------------------------------------
(* Text helpers: str.lower, str.startswith, str.endswith, str.lstrip(".").  *)

Digits == <<"0", "1", "2", "3", "4", "5", "6", "7", "8", "9">>

UpperCase ==
    <<"A", "B", "C", "D", "E", "F", "G", "H", "I", "J", "K", "L", "M",
      "N", "O", "P", "Q", "R", "S", "T", "U", "V", "W", "X", "Y", "Z">>

LowerCase ==
    <<"a", "b", "c", "d", "e", "f", "g", "h", "i", "j", "k", "l", "m",
      "n", "o", "p", "q", "r", "s", "t", "u", "v", "w", "x", "y", "z">>

LowerChar(c) ==
    IF \E i \in DOMAIN UpperCase : UpperCase[i] = c
    THEN LowerCase[CHOOSE i \in DOMAIN UpperCase : UpperCase[i] = c]
    ELSE c

lower(s) == [i \in DOMAIN s |-> LowerChar(s[i])]

startswith(s, p) == Len(p) <= Len(s) /\ SubSeq(s, 1, Len(p)) = p

endswith(s, p) == Len(p) <= Len(s) /\ SubSeq(s, Len(s) - Len(p) + 1, Len(s)) = p

RECURSIVE lstrip_dot(_)
lstrip_dot(p) == IF p # <<>> /\ Head(p) = "." THEN lstrip_dot(Tail(p)) ELSE p

(* pathlib.PurePosixPath: parts, name, suffix.                             *)

RECURSIVE SplitFrom(_, _, _)
SplitFrom(s, i, cur) ==
    IF i > Len(s) THEN <<cur>>
    ELSE IF s[i] = "/" THEN <<cur>> \o SplitFrom(s, i + 1, <<>>)
    ELSE SplitFrom(s, i + 1, Append(cur, s[i]))

path_parts(p) ==
    (IF p # <<>> /\ Head(p) = "/" THEN << <<"/">> >> ELSE <<>>)
    \o SelectSeq(SplitFrom(p, 1, <<>>), LAMBDA seg : seg # <<>> /\ seg # <<".">>)

name_of(parts) ==
    IF parts = <<>> \/ parts[Len(parts)] = <<"/">> THEN <<>>
    ELSE parts[Len(parts)]

path_name(p) == name_of(path_parts(p))

(* name.rfind("."), counted from 1; 0 when name holds no dot.              *)
rfind_dot(name) ==
    LET dots == {i \in DOMAIN name : name[i] = "."}
    IN  IF dots = {} THEN 0 ELSE CHOOSE j \in dots : \A k \in dots : k <= j

suffix_at(name, i) ==
    IF 1 < i /\ i < Len(name) THEN SubSeq(name, i, Len(name)) ELSE <<>>

suffix_of(name) == suffix_at(name, rfind_dot(name))

path_suffix(p) == suffix_of(path_name(p))

----------------------------------------------------------------------------
(* Test-file classifier.                                                   *)

(* A directory rule that compares the parts as they are written.           *)
in_test_dir_exact(parts) ==
    \E i \in DOMAIN parts : parts[i] \in TEST_DIR_PATTERNS

in_test_dir(parts) ==
    \E i \in DOMAIN parts : lower(parts[i]) \in TEST_DIR_PATTERNS

patterns_for(ext) ==
    IF ext \in DOMAIN TEST_FILE_PATTERNS THEN TEST_FILE_PATTERNS[ext] ELSE <<>>

(* A filename rule that compares the end of the name only.                 *)
matches_suffix_only(name, patterns) ==
    \E i \in DOMAIN patterns : endswith(name, patterns[i])

matches_pattern(name, patterns) ==
    \E i \in DOMAIN patterns :
        \/ endswith(name, patterns[i])
        \/ startswith(name, lstrip_dot(patterns[i]))

_is_test_file(file_path) ==
    \/ in_test_dir(path_parts(file_path))
    \/ matches_pattern(path_name(file_path),
                       patterns_for(lower(path_suffix(file_path))))

----------------------------------------------------------------------------
(* Grammar cache.  An instance's state is st = [parsers, builds]: its     *)
(* _parsers dict and, per grammar id, how many times it has called the     *)
(* language pack's get_parser.  The pack builds a parser for exactly the   *)
(* grammar ids in avail and raises for the others.  A handle names the     *)
(* pack call that built it.                                                *)

(* A handler that takes no error: what the try raises leaves the call.     *)
except_nothing(error) == FALSE

(* `except Exception`: the handler takes every error raised in its try.    *)
except_Exception(error) == TRUE

Count(counts, language) == IF language \in DOMAIN counts THEN counts[language] ELSE 0

Handle(language, build) == [grammar |-> language, build |-> build]

(* A cache that is never consulted.                                        *)
never_cached(st, language) == FALSE

cached(st, language) == language \in DOMAIN st.parsers

build_parser(st, avail, language, n) ==
    IF language \in avail
    THEN [parser  |-> Some(Handle(language, n)),
          parsers |-> (language :> Handle(language, n)) @@ st.parsers,
          builds  |-> (language :> n) @@ st.builds,
          raised  |-> FALSE]
    ELSE [parser  |-> None,
          parsers |-> st.parsers,
          builds  |-> (language :> n) @@ st.builds,
          raised  |-> ~except_Exception("LookupError")]

(* A cache whose hits hand back nothing.                                   *)
get_parser_first_only(st, avail, language) ==
    IF ~cached(st, language)
    THEN build_parser(st, avail, language, Count(st.builds, language) + 1)
    ELSE [parser  |-> None,
          parsers |-> st.parsers,
          builds  |-> st.builds,
          raised  |-> FALSE]

_get_parser(st, avail, language) ==
    IF ~cached(st, language)
    THEN build_parser(st, avail, language, Count(st.builds, language) + 1)
    ELSE [parser  |-> Some(st.parsers[language]),
          parsers |-> st.parsers,
          builds  |-> st.builds,
          raised  |-> FALSE]

(* A lookup that falls back to python.                                     *)
language_or_python(ext) ==
    IF ext \in DOMAIN EXTENSION_TO_LANGUAGE
    THEN Some(EXTENSION_TO_LANGUAGE[ext]) ELSE Some("python")

language_of(ext) ==
    IF ext \in DOMAIN EXTENSION_TO_LANGUAGE
    THEN Some(EXTENSION_TO_LANGUAGE[ext]) ELSE None

(* A lookup of the suffix as it is written.                                *)
detect_exact(file_path) == language_of(path_suffix(file_path))

detect_language(file_path) == language_of(lower(path_suffix(file_path)))

----------------------------------------------------------------------------
(* Tree walker.                                                            *)

Symbol(name, kind, line, filepath, language, docstring) ==
    [name |-> name, kind |-> kind, line |-> line, filepath |-> filepath,
     language |-> language, docstring |-> docstring]

(* str(n) for an int n >= 0.                                               *)
RECURSIVE str_int(_)
str_int(n) ==
    IF n < 10 THEN <<Digits[n + 1]>>
    ELSE str_int(n \div 10) \o <<Digits[(n % 10) + 1]>>

(* The characters of a kind, which the model holds as a string.            *)
chars_of(word) ==
    CASE word = "class" -> <<"c", "l", "a", "s", "s">>
      [] word = "struct" -> <<"s", "t", "r", "u", "c", "t">>
      [] word = "interface" -> <<"i", "n", "t", "e", "r", "f", "a", "c", "e">>
      [] word = "function" -> <<"f", "u", "n", "c", "t", "i", "o", "n">>

base_str(symbol) ==
    chars_of(symbol.kind) \o <<" ">> \o symbol.name \o <<" ", "@", " ">>
    \o symbol.filepath \o <<":">> \o str_int(symbol.line)

(* `if self.docstring`: neither None nor the empty string.                  *)
truthy(docstring) == docstring.some /\ docstring.val # <<>>

(* A rendering that appends whatever docstring is not None.                 *)
str_any_docstring(symbol) ==
    IF symbol.docstring.some
    THEN base_str(symbol) \o <<" ", "-", " ">> \o symbol.docstring.val
    ELSE base_str(symbol)

__str__(symbol) ==
    IF truthy(symbol.docstring)
    THEN base_str(symbol) \o <<" ", "-", " ">> \o symbol.docstring.val
    ELSE base_str(symbol)

name_field_types == {"name", "identifier", "property_identifier", "type_identifier"}

(* The children of node, then of each type_spec child, scanned in order:    *)
(* the text of the first one that names the node, or None.                  *)
RECURSIVE _get_name_from(_, _)
_get_name_from(children, i) ==
    IF i > Len(children) THEN None
    ELSE LET child == children[i]
             subs  == {j \in DOMAIN child.children :
                          child.children[j].type = "type_identifier"}
         IN  IF child.type \in name_field_types THEN Some(child.text)
             ELSE IF child.type = "type_spec" /\ subs # {}
             THEN Some(child.children[CHOOSE j \in subs : \A k \in subs : j <= k].text)
             ELSE _get_name_from(children, i + 1)

_get_name(node, language) == _get_name_from(node.children, 1)

(* The grammar's node type kept as the kind.                               *)
raw_kind(node_type, default_kind) == node_type

(* A lookup that is never made.                                            *)
default_kind_only(node_type, default_kind) == default_kind

_normalize_kind(node_type, default_kind) ==
    IF node_type \in DOMAIN kind_map THEN kind_map[node_type] ELSE default_kind

Whitespace == {" ", "\t", "\n", "\r"}

RECURSIVE lstrip(_, _)
lstrip(s, chars) ==
    IF s # <<>> /\ Head(s) \in chars THEN lstrip(Tail(s), chars) ELSE s

RECURSIVE rstrip(_, _)
rstrip(s, chars) ==
    IF s # <<>> /\ s[Len(s)] \in chars THEN rstrip(SubSeq(s, 1, Len(s) - 1), chars)
    ELSE s

strip(s, chars) == rstrip(lstrip(s, chars), chars)

(* A cut that also takes a docstring of exactly 200 characters.            *)
truncate_from_200(docstring) ==
    IF Len(docstring) >= 200
    THEN SubSeq(docstring, 1, 200) \o <<".", ".", ".">>
    ELSE docstring

truncate(docstring) ==
    IF Len(docstring) > 200
    THEN SubSeq(docstring, 1, 200) \o <<".", ".", ".">>
    ELSE docstring

FirstOfType(children, type) ==
    LET hits == {i \in DOMAIN children : children[i].type = type}
    IN  IF hits = {} THEN None
        ELSE Some(children[CHOOSE i \in hits : \A k \in hits : i <= k])

has_content(string) == FirstOfType(string.children, "string_content").some

content_of(string) == FirstOfType(string.children, "string_content").val.text

strings_in(statement) ==
    SelectSeq(statement.children, LAMBDA e : e.type = "string" /\ has_content(e))

(* What the loop over one block's children does with the block's first     *)
(* child: the text it returns (before strip and truncation) as Some(text), *)
(* or None when it breaks out without returning.                           *)
first_statement_text(block_child) ==
    IF block_child.type = "string"
    THEN IF has_content(block_child)
         THEN Some(content_of(block_child))
         ELSE Some(strip(strip(block_child.text, {"\""}), {"'"}))
    ELSE IF block_child.type = "expression_statement"
              /\ strings_in(block_child) # <<>>
    THEN Some(content_of(strings_in(block_child)[1]))
    ELSE None

(* A loop without its break: the first statement of the block that gives a *)
(* text.                                                                   *)
any_statement_docstring(block) ==
    IF \A i \in DOMAIN block.children : ~first_statement_text(block.children[i]).some
    THEN None
    ELSE first_statement_text(block.children[
            CHOOSE i \in DOMAIN block.children :
                /\ first_statement_text(block.children[i]).some
                /\ \A j \in 1..(i - 1) : ~first_statement_text(block.children[j]).some])

block_docstring(block) ==
    IF block.children = <<>> THEN None
    ELSE first_statement_text(block.children[1])

finish_docstring(found) ==
    IF found.some THEN Some(truncate(strip(found.val, Whitespace))) ELSE None

(* The blocks among node's children whose loop returns a docstring.        *)
returning_blocks(node) ==
    SelectSeq(node.children, LAMBDA c : c.type = "block" /\ block_docstring(c).some)

_get_python_docstring(node, content) ==
    finish_docstring(IF returning_blocks(node) = <<>> THEN None
                     ELSE block_docstring(returning_blocks(node)[1]))

(* A symbol made whether or not the node has a name.                       *)
make_unchecked(name, node, content, file_path, language, kind) ==
    Some(Symbol(IF name.some THEN name.val ELSE <<>>,
                _normalize_kind(node.type, kind),
                node.row + 1,
                file_path,
                language,
                IF language = "python"
                THEN _get_python_docstring(node, content)
                ELSE None))

(* A symbol that keeps tree-sitter's 0-indexed row as its line.            *)
make_zero_indexed(name, node, content, file_path, language, kind) ==
    IF ~name.some \/ name.val = <<>> THEN None
    ELSE Some(Symbol(name.val,
                     _normalize_kind(node.type, kind),
                     node.row,
                     file_path,
                     language,
                     IF language = "python"
                     THEN _get_python_docstring(node, content)
                     ELSE None))

make_symbol(name, node, content, file_path, language, kind) ==
    IF ~name.some \/ name.val = <<>> THEN None
    ELSE Some(Symbol(name.val,
                     _normalize_kind(node.type, kind),
                     node.row + 1,
                     file_path,
                     language,
                     IF language = "python"
                     THEN _get_python_docstring(node, content)
                     ELSE None))

_extract_symbol(node, content, file_path, language, kind) ==
    make_symbol(_get_name(node, language), node, content, file_path, language, kind)

(* A bound that lets functions through down to the last visited level.     *)
function_depth_any(depth) == depth <= 3

(* A bound that lets the walk inspect one more level.                      *)
too_deep_from_5(depth) == depth > 4

too_deep(depth) == depth > 3

function_depth_ok(depth) == depth <= 2

(* _walk_tree only ever appends to the list it is handed, so each operator *)
(* below returns what the call appends: `symbols` after the call is        *)
(* `symbols` before it followed by the operator's value.                   *)

appended(symbol) == IF symbol.some THEN <<symbol.val>> ELSE <<>>

(* A function branch that passes the default kind of the type branch.      *)
visit_functions_as_class(node, content, file_path, language, class_types, function_types, depth) ==
    IF node.type \in class_types
    THEN appended(_extract_symbol(node, content, file_path, language, "class"))
    ELSE IF node.type \in function_types /\ function_depth_ok(depth)
    THEN appended(_extract_symbol(node, content, file_path, language, "class"))
    ELSE <<>>

(* The body of _walk_tree before it recurses.                              *)
visit(node, content, file_path, language, class_types, function_types, depth) ==
    IF node.type \in class_types
    THEN appended(_extract_symbol(node, content, file_path, language, "class"))
    ELSE IF node.type \in function_types /\ function_depth_ok(depth)
    THEN appended(_extract_symbol(node, content, file_path, language, "function"))
    ELSE <<>>

RECURSIVE _walk_tree(_, _, _, _, _, _, _)
RECURSIVE walk_children(_, _, _, _, _, _, _, _)
(* A walk that emits a node after its descendants.                         *)
walk_postorder(node, content, file_path, language, class_types, function_types, depth) ==
    IF too_deep(depth) THEN <<>>
    ELSE walk_children(node.children, 1, content, file_path, language,
                       class_types, function_types, depth + 1)
         \o visit(node, content, file_path, language, class_types, function_types,
                  depth)

(* A walk that leaves a definition it could not name without looking at   *)
(* its children.                                                           *)
walk_named_only(node, content, file_path, language, class_types, function_types, depth) ==
    IF too_deep(depth) THEN <<>>
    ELSE IF node.type \in class_types \cup function_types
            /\ visit(node, content, file_path, language, class_types, function_types,
                     depth) = <<>>
    THEN <<>>
    ELSE visit(node, content, file_path, language, class_types, function_types,
               depth)
         \o walk_children(node.children, 1, content, file_path, language,
                          class_types, function_types, depth + 1)

_walk_tree(node, content, file_path, language, class_types, function_types, depth) ==
    IF too_deep(depth) THEN <<>>
    ELSE visit(node, content, file_path, language, class_types, function_types,
               depth)
         \o walk_children(node.children, 1, content, file_path, language,
                          class_types, function_types, depth + 1)

(* for child in node.children, from the i-th child on.                     *)
walk_children(children, i, content, file_path, language, class_types, function_types, depth) ==
    IF i > Len(children) THEN <<>>
    ELSE _walk_tree(children[i], content, file_path, language, class_types,
                    function_types, depth)
         \o walk_children(children, i + 1, content, file_path, language,
                          class_types, function_types, depth)

----------------------------------------------------------------------------
(* Facade.  content is [utf8, tree]: whether content.encode("utf-8")        *)
(* succeeds, and the tree parser.parse returns for it.  language is None    *)
(* or Some(grammar id).  Each operation returns its value together with     *)
(* the instance's state after the call and whether an exception left it     *)
(* (raised).                                                                *)

parse_and_walk(got, content, file_path, language) ==
    IF got.raised \/ ~got.parser.some
    THEN [symbols |-> <<>>, parsers |-> got.parsers, builds |-> got.builds,
          raised |-> got.raised]
    ELSE IF ~content.utf8
    THEN [symbols |-> <<>>, parsers |-> got.parsers, builds |-> got.builds,
          raised |-> ~except_Exception("UnicodeEncodeError")]
    ELSE [symbols |-> _walk_tree(content.tree, content, file_path, language,
                                 IF language \in DOMAIN CLASS_NODE_TYPES
                                 THEN CLASS_NODE_TYPES[language] ELSE {},
                                 IF language \in DOMAIN FUNCTION_NODE_TYPES
                                 THEN FUNCTION_NODE_TYPES[language] ELSE {},
                                 0),
          parsers |-> got.parsers,
          builds  |-> got.builds,
          raised  |-> FALSE]

extract_as(st, avail, content, file_path, language) ==
    IF ~language.some \/ language.val = ""
    THEN [symbols |-> <<>>, parsers |-> st.parsers, builds |-> st.builds,
          raised |-> FALSE]
    ELSE parse_and_walk(_get_parser(st, avail, language.val), content, file_path,
                        language.val)

(* A facade that trusts the extension first and the argument only when the *)
(* extension is unknown.                                                   *)
extract_detect_first(st, avail, content, file_path, language) ==
    extract_as(st, avail, content, file_path,
               IF detect_language(file_path).some
               THEN detect_language(file_path) ELSE language)

extract_symbols(st, avail, content, file_path, language) ==
    extract_as(st, avail, content, file_path,
               IF ~language.some \/ language.val = ""
               THEN detect_language(file_path) ELSE language)

(* A loop that skips test files whatever exclude_tests says.               *)
skip_tests_always(exclude_tests, path) == _is_test_file(path)

skip_file(exclude_tests, path) == exclude_tests /\ _is_test_file(path)

no_symbols(st) ==
    [symbols |-> <<>>, parsers |-> st.parsers, builds |-> st.builds, raised |-> FALSE]

prepend(symbols, rest) == [rest EXCEPT !.symbols = symbols \o rest.symbols]

(* files is the mapping in iteration order: a sequence of [path, content]   *)
(* with distinct paths.  extract_loop is the loop from the i-th file on, on *)
(* an instance in state st; after_file is the rest of one pass of its body, *)
(* r being what extract_symbols returned for the i-th file.                 *)
RECURSIVE extract_loop(_, _, _, _, _)
RECURSIVE after_file(_, _, _, _, _)
(* A loop that extracts every file and then leaves out the symbols of the  *)
(* test files.                                                             *)
extract_then_skip(st, avail, files, i, exclude_tests) ==
    IF i > Len(files) THEN no_symbols(st)
    ELSE after_file([extract_symbols(st, avail, files[i].content, files[i].path, None)
                        EXCEPT !.symbols = IF skip_file(exclude_tests, files[i].path)
                                           THEN <<>> ELSE @],
                    avail, files, i, exclude_tests)

extract_loop(st, avail, files, i, exclude_tests) ==
    IF i > Len(files) THEN no_symbols(st)
    ELSE IF skip_file(exclude_tests, files[i].path)
    THEN extract_loop(st, avail, files, i + 1, exclude_tests)
    ELSE after_file(extract_symbols(st, avail, files[i].content, files[i].path, None),
                    avail, files, i, exclude_tests)

after_file(r, avail, files, i, exclude_tests) ==
    IF r.raised THEN r
    ELSE prepend(r.symbols,
                 extract_loop([parsers |-> r.parsers, builds |-> r.builds], avail,
                              files, i + 1, exclude_tests))

extract_from_files(st, avail, files, exclude_tests) ==
    extract_loop(st, avail, files, 1, exclude_tests)

----------------------------------------------------------------------------
(* Inputs: syntax trees as tree-sitter builds them, and a repository.      *)

Node(type, row, text, children) ==
    [type |-> type, row |-> row, text |-> text, children |-> children]

Leaf(type, row, text) == Node(type, row, text, <<>>)

Ident(row, text) == Leaf("identifier", row, text)

DocStatement(row, text) ==
    Node("expression_statement", row, <<>>,
         << Node("string", row, <<>>,
                 << Leaf("string_start", row, <<"\"", "\"", "\"">>),
                    Leaf("string_content", row, text),
                    Leaf("string_end", row, <<"\"", "\"", "\"">>) >>) >>)

PyDef(type, row, name, body) ==
    Node(type, row, <<>>,
         << Leaf(IF type = "class_definition" THEN "class" ELSE "def", row, <<>>),
            Ident(row, name),
            Node("block", row + 1, <<>>, body) >>)

(*  0 class User:                                                          *)
(*  1     """ A user. """                                                  *)
(*  2     def save(self):                                                  *)
(*  3         pass                                                         *)
(*  4 def helper():                                                        *)
(*  5     def inner():                                                     *)
(*  6         class Local:                                                 *)
(*  7             pass                                                     *)
(*  8 class Repo:                                                          *)
(*  9     class Meta:                                                      *)
(* 10         pass                                                         *)
PyModels ==
    Node("module", 0, <<>>,
         << PyDef("class_definition", 0, <<"U", "s", "e", "r">>,
                  << DocStatement(1, <<" ", "A", " ", "u", "s", "e", "r", ".", " ">>),
                     PyDef("function_definition", 2, <<"s", "a", "v", "e">>,
                           << Leaf("pass_statement", 3, <<>>) >>) >>),
            PyDef("function_definition", 4, <<"h", "e", "l", "p", "e", "r">>,
                  << PyDef("function_definition", 5, <<"i", "n", "n", "e", "r">>,
                           << PyDef("class_definition", 6, <<"L", "o", "c", "a", "l">>,
                                    << Leaf("pass_statement", 7, <<>>) >>) >>) >>),
            PyDef("class_definition", 8, <<"R", "e", "p", "o">>,
                  << PyDef("class_definition", 9, <<"M", "e", "t", "a">>,
                           << Leaf("pass_statement", 10, <<>>) >>) >>) >>)

(*  0 class User:                                                          *)
(*  1     pass                                                             *)
(*  2 class :            (the identifier is a zero-width MISSING node)     *)
(*  3     pass                                                             *)
PyOther ==
    Node("module", 0, <<>>,
         << PyDef("class_definition", 0, <<"U", "s", "e", "r">>,
                  << Leaf("pass_statement", 1, <<>>) >>),
            PyDef("class_definition", 2, <<>>,
                  << Leaf("pass_statement", 3, <<>>) >>) >>)

(*  0 type Server struct{}                                                 *)
(*  1 func main() {}                                                       *)
(*  2 func (s Server) Run() {}                                             *)
GoMain ==
    Node("source_file", 0, <<>>,
         << Node("type_declaration", 0, <<>>,
                 << Leaf("type", 0, <<>>),
                    Node("type_spec", 0, <<>>,
                         << Leaf("type_identifier", 0, <<"S", "e", "r", "v", "e", "r">>),
                            Leaf("struct_type", 0, <<>>) >>) >>),
            Node("function_declaration", 1, <<>>,
                 << Leaf("func", 1, <<>>),
                    Ident(1, <<"m", "a", "i", "n">>),
                    Leaf("parameter_list", 1, <<>>),
                    Leaf("block", 1, <<>>) >>),
            Node("method_declaration", 2, <<>>,
                 << Leaf("func", 2, <<>>),
                    Leaf("parameter_list", 2, <<>>),
                    Leaf("field_identifier", 2, <<"R", "u", "n">>),
                    Leaf("parameter_list", 2, <<>>),
                    Leaf("block", 2, <<>>) >>) >>)

Text(tree) == [utf8 |-> TRUE, tree |-> tree]

(* A str holding a lone surrogate: content.encode("utf-8") raises.          *)
Unencodable(tree) == [utf8 |-> FALSE, tree |-> tree]

File(path, content) == [path |-> path, content |-> content]

Repository ==
    { File(<<"s", "r", "c", "/", "a", ".", "p", "y">>, Text(PyModels)),
      File(<<"t", "e", "s", "t", "s", "/", "t", "e", "s", "t", "_", "a", ".", "p", "y">>,
           Text(PyOther)),
      File(<<"l", "i", "b", "/", "b", ".", "P", "Y">>, Text(PyOther)),
      File(<<"s", "r", "c", "/", "b", "a", "d", ".", "p", "y">>, Unencodable(PyModels)),
      File(<<"R", "E", "A", "D", "M", "E", ".", "m", "d">>, Text(PyOther)),
      File(<<"c", "m", "d", "/", "m", "a", "i", "n", ".", "g", "o">>, Text(GoMain)),
      File(<<"p", "k", "g", "/", "u", "t", "i", "l", "_", "t", "e", "s", "t", ".", "g", "o">>,
           Text(GoMain)) }

MaxFiles == 2

MaxBuilds == 2

(* The mappings extract_from_files is called with: up to MaxFiles files of *)
(* the repository, in any order, no path twice.                            *)
FileMaps ==
    UNION { { fs \in [1..n -> Repository] :
                \A i, j \in 1..n : i # j => fs[i].path # fs[j].path } : n \in 0..MaxFiles }

GrammarIds == {"python", "go", "bash"}

LanguageArgs == {None, Some(""), Some("python"), Some("bash")}

(* Paths whose extension is not in the registry, or that have none.       *)
UnregisteredPaths ==
    { <<"M", "a", "k", "e", "f", "i", "l", "e">>,
      <<"d", "o", "c", "s", "/", ".", "p", "y">>,
      <<"n", "o", "t", "e", "s", ".", "T", "X", "T">> }

SymbolPaths == { f.path : f \in Repository } \cup UnregisteredPaths

SymbolContents == { f.content : f \in Repository }

----------------------------------------------------------------------------
(* One ASTParser instance and its caller.  The caller is sequential: it   *)
(* makes a call, holds what the call returned, lets go of it (Discard)     *)
(* and makes the next call.                                                *)

State == [parsers |-> parsers, builds |-> builds]

Within(r) == \A l \in DOMAIN r.builds : r.builds[l] <= MaxBuilds

Idle == [op |-> "idle"]

Init ==
    /\ parsers = <<>>
    /\ available \in { S \cup {"bash"} : S \in SUBSET {"python", "go"} }
    /\ builds = <<>>
    /\ call = Idle
    /\ result = None
    /\ state = None
    /\ session_state = None

(* The instance and the caller after a call that came back with r: the     *)
(* caller holds the value returned, or nothing when the call raised.       *)
Returns(r, made, value) ==
    /\ Within(r)
    /\ parsers' = r.parsers
    /\ builds' = r.builds
    /\ call' = [made EXCEPT !.raised = r.raised]
    /\ result' = IF r.raised THEN None ELSE value
    /\ UNCHANGED <<available, state, session_state>>

GetParser ==
    /\ call = Idle
    /\ \E language \in GrammarIds :
        Returns(_get_parser(State, available, language),
                [op |-> "get_parser", language |-> language, before |-> State, raised |-> FALSE],
                _get_parser(State, available, language).parser)

ExtractSymbols ==
    /\ call = Idle
    /\ \E content \in SymbolContents, file_path \in SymbolPaths,
          language \in LanguageArgs :
        Returns(extract_symbols(State, available, content, file_path, language),
                [op |-> "extract_symbols", content |-> content,
                 file_path |-> file_path, language |-> language, before |-> State, raised |-> FALSE],
                extract_symbols(State, available, content, file_path, language).symbols)

ExtractFromFiles ==
    /\ call = Idle
    /\ \E files \in FileMaps, exclude_tests \in BOOLEAN :
        Returns(extract_from_files(State, available, files, exclude_tests),
                [op |-> "extract_from_files", files |-> files,
                 exclude_tests |-> exclude_tests, before |-> State, raised |-> FALSE],
                extract_from_files(State, available, files, exclude_tests).symbols)

Discard ==
    /\ call # Idle
    /\ call' = Idle
    /\ result' = None
    /\ UNCHANGED <<parsers, available, builds, state, session_state>>

Next == GetParser \/ ExtractSymbols \/ ExtractFromFiles \/ Discard

Spec == Init /\ [][Next]_vars
----------------------------------------------------------------------------
(* Chains: one definition nested in the next, MaxChain levels below the    *)
(* root.  Level k is a type definition, a function definition or a body    *)
(* (block) node; a definition carries a name child, and may be followed by *)
(* a sibling type definition.  p is                                        *)
(*   [language, tnode, fnode, roles, naming, unnamed, siblings]:           *)
(* the node types used for the type and function levels, the role of each  *)
(* level, how definitions are named ("identifier", ..., "type_spec" for    *)
(* Go's wrapper, "empty" for a zero-width name), the one level that has no *)
(* name child (0: none), and whether siblings are present.                 *)

MaxChain == 4

Roles == {"type", "function", "body"}

Digit(k) == <<"0", "1", "2", "3", "4", "5", "6", "7", "8", "9">>[k + 1]

LevelName(k) == <<"N", Digit(k)>>

SiblingName(k) == <<"S", Digit(k)>>

BodyType(language) ==
    IF language = "python" THEN "block"
    ELSE IF language \in {"javascript", "typescript", "tsx", "java", "kotlin"}
    THEN "class_body"
    ELSE "declaration_list"

RootType(language) ==
    IF language = "python" THEN "module"
    ELSE IF language = "go" THEN "source_file"
    ELSE "program"

NameChild(naming, row, text) ==
    IF naming = "type_spec"
    THEN Node("type_spec", row, <<>>, << Leaf("type_identifier", row, text) >>)
    ELSE IF naming = "empty" THEN Leaf("identifier", row, <<>>)
    ELSE IF naming \in name_field_types THEN Leaf(naming, row, text)
    ELSE Leaf("identifier", row, text)

LevelType(p, k) ==
    IF p.roles[k] = "type" THEN p.tnode
    ELSE IF p.roles[k] = "function" THEN p.fnode
    ELSE BodyType(p.language)

Sibling(p, k) ==
    IF p.siblings
    THEN << Node(p.tnode, 20 - k, <<>>,
                 << NameChild("identifier", 20 - k, SiblingName(k)) >>) >>
    ELSE <<>>

RECURSIVE ChainNode(_, _)
ChainNode(p, k) ==
    Node(LevelType(p, k), k, <<>>,
         << Leaf("keyword", k, <<>>) >>
         \o (IF p.roles[k] # "body" /\ p.unnamed # k
             THEN << NameChild(p.naming, k, LevelName(k)) >> ELSE <<>>)
         \o (IF k < Len(p.roles)
             THEN << ChainNode(p, k + 1) >> \o Sibling(p, k + 1) ELSE <<>>))

ChainTree(p) ==
    Node(RootType(p.language), 0, <<>>, << ChainNode(p, 1) >> \o Sibling(p, 1))

Languages == DOMAIN CLASS_NODE_TYPES

ShapeLanguages == {"python", "java", "go"}

(* <<naming, unnamed, siblings>>.                                         *)
Variants ==
    { <<n, 0, FALSE>> : n \in name_field_types \cup {"type_spec", "empty"} }
    \cup { <<"identifier", k, FALSE>> : k \in 1..MaxChain }
    \cup { <<"identifier", 0, TRUE>>, <<"identifier", 1, TRUE>> }

VariantsFor(language) ==
    IF language \in ShapeLanguages THEN Variants ELSE {<<"identifier", 0, FALSE>>}

Chain(l, t, f, r, v) ==
    [language |-> l, tnode |-> t, fnode |-> f, roles |-> r,
     naming |-> v[1], unnamed |-> v[2], siblings |-> v[3]]

PathFor(language) ==
    <<"m">> \o CHOOSE e \in DOMAIN EXTENSION_TO_LANGUAGE :
                   EXTENSION_TO_LANGUAGE[e] = language

(* extract_symbols on a new instance, every grammar of the registry being  *)
(* installed, for one chain stored under a path of its language.           *)
InitWalk ==
    /\ parsers = <<>>
    /\ available = Languages
    /\ builds = <<>>
    /\ call = Idle
    /\ result = None
    /\ state = None
    /\ session_state = None

ExtractsChain(p, content, file_path) ==
    Returns(extract_symbols(State, available, content, file_path, None),
            [op |-> "extract_symbols", chain |-> p, content |-> content,
             file_path |-> file_path, language |-> None, before |-> State, raised |-> FALSE],
            extract_symbols(State, available, content, file_path, None).symbols)

ExtractChain ==
    /\ call = Idle
    /\ \E l \in Languages :
       \E t \in CLASS_NODE_TYPES[l], f \in FUNCTION_NODE_TYPES[l],
          r \in [1..MaxChain -> Roles], v \in VariantsFor(l) :
            ExtractsChain(Chain(l, t, f, r, v), Text(ChainTree(Chain(l, t, f, r, v))),
                          PathFor(l))

SpecWalk == InitWalk /\ [][ExtractChain]_vars

----------------------------------------------------------------------------
(* detect_language on paths put together from a directory, a base name, an *)
(* inner extension and a final extension written in some letter case.      *)

UpperChar(c) ==
    IF \E i \in DOMAIN LowerCase : LowerCase[i] = c
    THEN UpperCase[CHOOSE i \in DOMAIN LowerCase : LowerCase[i] = c]
    ELSE c

Cased(ext, casing) ==
    IF casing = "upper" THEN [i \in DOMAIN ext |-> UpperChar(ext[i])]
    ELSE IF casing = "title"
    THEN [i \in DOMAIN ext |-> IF i = 2 THEN UpperChar(ext[i]) ELSE ext[i]]
    ELSE ext

Dirs ==
    { <<>>,
      <<"s", "r", "c", "/">>,
      <<"/", "o", "p", "t", "/">>,
      <<"a", ".", "p", "y", "/", "b", "/">>,
      <<".", "/", "v", "1", ".", "2", "/">> }

Bases == { <<>>, <<"m">>, <<"R", "E", "A", "D", "M", "E">> }

InnerExts == { <<>>, <<".", "t", "a", "r">>, <<".", "p", "y">>, <<".", "d">> }

UnknownExts ==
    { <<".", "m", "d">>, <<".", "j", "s", "o", "n">>, <<".", "p", "y", "c">>,
      <<".", "p">>, <<".", "t">>, <<".", "y", "p">> }

Casings == {"lower", "upper", "title"}

PathInputs ==
    [dir : Dirs, base : Bases, inner : InnerExts,
     ext : DOMAIN EXTENSION_TO_LANGUAGE \cup UnknownExts \cup {<<>>},
     casing : Casings]

PathOf(q) == q.dir \o q.base \o q.inner \o Cased(q.ext, q.casing)

DetectLanguage ==
    /\ call = Idle
    /\ \E q \in PathInputs :
        /\ call' = [op |-> "detect_language", input |-> q, file_path |-> PathOf(q)]
        /\ result' = detect_language(PathOf(q))
        /\ UNCHANGED <<parsers, available, builds, state, session_state>>

SpecDetect == Init /\ [][DetectLanguage]_vars

(* _is_test_file on paths put together from plain directories, at most one *)
(* directory named like a test directory in some letter case, and a file   *)
(* name.                                                                   *)

MaxDirs == 2

TestDirNames ==
    << <<"t", "e", "s", "t">>,
       <<"t", "e", "s", "t", "s">>,
       <<"_", "_", "t", "e", "s", "t", "s", "_", "_">>,
       <<"s", "p", "e", "c">>,
       <<"s", "p", "e", "c", "s">>,
       <<"t", "e", "s", "t", "i", "n", "g">> >>

(* Directory names that hold a test-directory name without being one.      *)
PlainDirs ==
    << <<"s", "r", "c">>,
       <<"c", "o", "n", "t", "e", "s", "t">>,
       <<"t", "e", "s", "t", "_", "d", "a", "t", "a">>,
       <<"s", "p", "e", "c", ".", "d">> >>

(* A test directory: none (0), or the name-th name in a letter case, put   *)
(* after the at-th plain directory.                                        *)
TestDirChoices(n) ==
    {[name |-> 0, casing |-> "lower", at |-> 0]}
    \cup [name : DOMAIN TestDirNames, casing : Casings, at : 0..n]

PatternExts == DOMAIN TEST_FILE_PATTERNS

NoPatternExts ==
    { <<".", "c">>, <<".", "h">>, <<".", "c", "p", "p">>, <<".", "p", "y", "i">> }

Stems == { <<>>, <<"m">> }

(* File names.  how says how the name is put together: "suffix" is stem +  *)
(* pattern, "prefix" is pattern without its leading dots + stem + ext,     *)
(* "plain" is stem + ext, "literal" is the text as given.                  *)
PatternsOf(e, hows) ==
    { [how |-> h, ext |-> e, pattern |-> TEST_FILE_PATTERNS[e][i], stem |-> st] :
        h \in hows, i \in DOMAIN TEST_FILE_PATTERNS[e], st \in Stems }

(* A suffix pattern is one that ends with the extension it is listed under *)
(* (all but "test_"); the name must be longer than its extension.          *)
WellFormed(f) ==
    f.how = "suffix" =>
        /\ endswith(f.pattern, f.ext)
        /\ Len(f.stem \o f.pattern) > Len(f.ext)

PatternNames ==
    { f \in UNION { PatternsOf(e, {"suffix", "prefix"}) : e \in PatternExts } :
        WellFormed(f) }

Lookalikes ==
    { <<"t", "e", "s", "t", "_", "m">>, <<"m", "_", "t", "e", "s", "t">>,
      <<"m", "T", "e", "s", "t">>, <<"c", "o", "n", "f", "t", "e", "s", "t">>,
      <<"m", ".", "t", "e", "s", "t">>, <<"m">> }

PlainNames ==
    { [how |-> "plain", ext |-> e, pattern |-> <<>>, stem |-> st] :
        e \in NoPatternExts \cup PatternExts, st \in Lookalikes }

Literals ==
    { <<"c", "o", "n", "f", "t", "e", "s", "t", ".", "p", "y">>,
      <<"m", "y", "c", "o", "n", "f", "t", "e", "s", "t", ".", "p", "y">>,
      <<"_", "t", "e", "s", "t", ".", "p", "y">>,
      <<"_", "t", "e", "s", "t", ".", "p", "y", "m", ".", "p", "y">>,
      <<"t", "e", "s", "t", ".", "p", "y">>,
      <<"t", "e", "s", "t", "s", ".", "p", "y">>,
      <<"c", "o", "n", "t", "e", "s", "t", ".", "p", "y">>,
      <<"t", "e", "s", "t", "_">>,
      <<"m", "_", "t", "e", "s", "t", ".", "P", "Y">>,
      <<"t", "e", "s", "t", "_", "m", ".", "P", "y">>,
      <<"T", "E", "S", "T", "_", "m", ".", "p", "y">>,
      <<"m", "t", "e", "s", "t", ".", "j", "a", "v", "a">>,
      <<"T", "e", "s", "t", "s">>,
      <<"R", "E", "A", "D", "M", "E">> }

LiteralNames ==
    { [how |-> "literal", ext |-> <<>>, pattern |-> <<>>, stem |-> t] : t \in Literals }

FileNames == PatternNames \cup PlainNames \cup LiteralNames

NameText(f) ==
    IF f.how = "suffix" THEN f.stem \o f.pattern
    ELSE IF f.how = "prefix" THEN lstrip_dot(f.pattern) \o f.stem \o f.ext
    ELSE f.stem \o f.ext

RECURSIVE DirText(_, _, _)
(* The directories from the k-th on, of n plain ones, each followed by "/". *)
DirText(n, t, k) ==
    (IF t.name # 0 /\ t.at = k - 1
     THEN Cased(TestDirNames[t.name], t.casing) \o <<"/">> ELSE <<>>)
    \o (IF k > n THEN <<>>
        ELSE PlainDirs[((k - 1) % Len(PlainDirs)) + 1] \o <<"/">> \o DirText(n, t, k + 1))

ClassifiedPath(q) ==
    (IF q.absolute THEN <<"/">> ELSE <<>>) \o DirText(q.dirs, q.test, 1) \o NameText(q.file)

IsTestFile ==
    /\ call = Idle
    /\ \E n \in 0..MaxDirs, absolute \in BOOLEAN :
       \E t \in TestDirChoices(n), f \in FileNames :
        /\ call' = [op |-> "is_test_file",
                    input |-> [dirs |-> n, absolute |-> absolute, test |-> t, file |-> f],
                    file_path |-> ClassifiedPath([dirs |-> n, absolute |-> absolute,
                                                  test |-> t, file |-> f])]
        /\ result' = _is_test_file(ClassifiedPath([dirs |-> n, absolute |-> absolute,
                                                   test |-> t, file |-> f]))
        /\ UNCHANGED <<parsers, available, builds, state, session_state>>

SpecClassify == InitWalk /\ [][IsTestFile]_vars

----------------------------------------------------------------------------
(* extract_symbols on a Python definition whose body starts with a string  *)
(* literal of a given length.  d is [len, lpad, rpad, shape, type, row,    *)
(* name], row and name being those of the definition:                      *)
(* number of characters between the padding, the white space around them,  *)
(* how the literal sits in the block ("statement": expression_statement -> *)
(* string -> string_content, as tree-sitter builds it; "string": a string  *)
(* child of the block; "bare": a string node without string_content, read  *)
(* through its text) and the node type of the definition.                  *)

MaxDocLen == 204

MaxRow == 1

DocNames == { <<"F", "o", "o">>, <<"_">> }

Letter(i) == LowerCase[((i - 1) % 26) + 1]

DocBody(n) == [i \in 1..n |-> Letter(i)]

Pads == { <<>>, <<"\n", " ", "\t">> }

Quotes == <<"\"", "\"", "\"">>

DocShapes == {"statement", "string", "bare"}

DocText(d) == d.lpad \o DocBody(d.len) \o d.rpad

(* The string node of a literal: an empty literal has no string_content.   *)
DocString(row, text) ==
    Node("string", row, Quotes \o text \o Quotes,
         << Leaf("string_start", row, Quotes) >>
         \o (IF text = <<>> THEN <<>> ELSE << Leaf("string_content", row, text) >>)
         \o << Leaf("string_end", row, Quotes) >>)

DocNode(d) ==
    IF d.shape = "statement"
    THEN Node("expression_statement", d.row + 1, <<>>,
              << DocString(d.row + 1, DocText(d)) >>)
    ELSE IF d.shape = "string" THEN DocString(d.row + 1, DocText(d))
    ELSE Leaf("string", d.row + 1, Quotes \o DocText(d) \o Quotes)

DocTree(d) ==
    Node("module", 0, <<>>,
         << PyDef(d.type, d.row, d.name,
                  << DocNode(d), Leaf("pass_statement", d.row + 2, <<>>) >>) >>)

DocPath == <<"m", ".", "p", "y">>

ExtractsDocstring(d, content) ==
    Returns(extract_symbols(State, available, content, DocPath, None),
            [op |-> "extract_symbols", doc |-> d, content |-> content,
             file_path |-> DocPath, language |-> None, before |-> State,
             raised |-> FALSE],
            extract_symbols(State, available, content, DocPath, None).symbols)

ExtractDocstring ==
    /\ call = Idle
    /\ \E n \in 0..MaxDocLen, lpad \in Pads, rpad \in Pads, shape \in DocShapes,
          type \in {"class_definition", "function_definition"},
          row \in 0..MaxRow, name \in DocNames :
        ExtractsDocstring([len |-> n, lpad |-> lpad, rpad |-> rpad, shape |-> shape,
                           type |-> type, row |-> row, name |-> name],
                          Text(DocTree([len |-> n, lpad |-> lpad, rpad |-> rpad,
                                        shape |-> shape, type |-> type, row |-> row,
                                        name |-> name])))

SpecDoc == InitWalk /\ [][ExtractDocstring]_vars

----------------------------------------------------------------------------
(* str(symbol) for symbols built directly, those of the test suite among  *)
(* them.                                                                   *)

MaxLine == 12

RenderNames == { <<"M", "y", "C", "l", "a", "s", "s">>, <<"p", "r", "o", "c", "e", "s", "s", "_", "d", "a", "t", "a">>, <<"I", "S", "e", "r", "v", "i", "c", "e">>, <<"m">> }

RenderPaths == { <<"s", "r", "c", "/", "m", "o", "d", "e", "l", "s", ".", "p", "y">>, <<"s", "r", "c", "/", "u", "t", "i", "l", "s", ".", "p", "y">>, <<"s", "r", "c", "/", "s", "e", "r", "v", "i", "c", "e", "s", ".", "t", "s">>, <<"a", ":", "1">> }

RenderDocs ==
    { None, Some(<<>>), Some(<<"P", "r", "o", "c", "e", "s", "s", " ", "i", "n", "p", "u", "t", " ", "d", "a", "t", "a", ".">>), Some(<<" ", "-", " ">>), Some(<<" ">>) }

RenderLines == 1..MaxLine \cup {15, 42, 99, 100, 1234}

Render ==
    /\ call = Idle
    /\ \E kind \in {"class", "struct", "interface", "function"}, name \in RenderNames,
          line \in RenderLines, filepath \in RenderPaths,
          language \in {"python", "typescript"}, docstring \in RenderDocs :
        /\ call' = [op |-> "str",
                    symbol |-> Symbol(name, kind, line, filepath, language, docstring)]
        /\ result' = __str__(Symbol(name, kind, line, filepath, language, docstring))
        /\ UNCHANGED <<parsers, available, builds, state, session_state>>

SpecRender == InitWalk /\ [][Render]_vars

----------------------------------------------------------------------------
(* Two ASTParser instances used at the same time, one thread each.  Here   *)
(* parsers, builds, call and result hold one entry per instance, and a     *)
(* get_parser or extract_symbols call is taken in the steps of             *)
(* _get_parser: the membership test, the language pack's get_parser, the   *)
(* store into self._parsers, the final read.  call[i].pc is where          *)
(* instance i's thread stands.                                             *)

Instances == {"p1", "p2"}

(* A cache shared by all instances, as a class attribute would be.         *)
class_cache(self) == "p1"

(* The dict that self._parsers names: __init__ gives each instance its own. *)
own_cache(self) == self

InstanceState(self) ==
    [parsers |-> parsers[own_cache(self)], builds |-> builds[self]]

TwoFiles ==
    { File(<<"s", "r", "c", "/", "a", ".", "p", "y">>, Text(PyModels)),
      File(<<"c", "m", "d", "/", "m", "a", "i", "n", ".", "g", "o">>, Text(GoMain)),
      File(<<"R", "E", "A", "D", "M", "E", ".", "m", "d">>, Text(PyOther)) }

NoFile == File(<<>>, Text(Node("module", 0, <<>>, <<>>)))

Requests ==
    { [op |-> "get_parser", language |-> Some(l), file |-> NoFile] : l \in {"python", "go"} }
    \cup { [op |-> "extract_symbols", language |-> detect_language(f.path), file |-> f] :
             f \in TwoFiles }

At(self, pc) == call[self].pc = pc

Goes(self, pc) == call' = [call EXCEPT ![self].pc = pc]

Gives(self, value) ==
    /\ call' = [call EXCEPT ![self].pc = "done"]
    /\ result' = [result EXCEPT ![self] = value]

NoParserValue(req) == IF req.op = "get_parser" THEN None ELSE <<>>

ParserValue(req, handle) ==
    IF req.op = "get_parser" THEN Some(handle)
    ELSE parse_and_walk([parser |-> Some(handle), parsers |-> <<>>, builds |-> <<>>,
                         raised |-> FALSE],
                        req.file.content, req.file.path, req.language.val).symbols

InitTwo ==
    /\ parsers = [self \in Instances |-> <<>>]
    /\ builds = [self \in Instances |-> <<>>]
    /\ available \in {{"python"}, {"python", "go"}}
    /\ call = [self \in Instances |-> [pc |-> "idle"]]
    /\ result = [self \in Instances |-> None]
    /\ state = None
    /\ session_state = None

(* The call is made; extract_symbols returns [] when no language is found. *)
Start(self) ==
    /\ At(self, "idle")
    /\ \E req \in Requests :
        IF req.language.some
        THEN /\ call' = [call EXCEPT ![self] = [pc |-> "check", req |-> req]]
             /\ UNCHANGED result
        ELSE /\ call' = [call EXCEPT ![self] = [pc |-> "done", req |-> req]]
             /\ result' = [result EXCEPT ![self] = <<>>]
    /\ UNCHANGED <<parsers, builds, available, state, session_state>>

(* if language not in self._parsers                                        *)
Check(self) ==
    /\ At(self, "check")
    /\ IF cached(InstanceState(self), call[self].req.language.val)
       THEN Goes(self, "return") ELSE Goes(self, "build")
    /\ UNCHANGED <<parsers, builds, available, result, state, session_state>>

(* get_parser(language) of the language pack: a parser, or an exception    *)
(* that the handler turns into None.                                       *)
Build(self) ==
    /\ At(self, "build")
    /\ Count(builds[self], call[self].req.language.val) < MaxBuilds
    /\ builds' = [builds EXCEPT ![self] =
                    build_parser(InstanceState(self), available,
                                 call[self].req.language.val,
                                 Count(builds[self], call[self].req.language.val) + 1).builds]
    /\ IF call[self].req.language.val \in available
       THEN Goes(self, "store") /\ UNCHANGED result
       ELSE Gives(self, NoParserValue(call[self].req))
    /\ UNCHANGED <<parsers, available, state, session_state>>

(* self._parsers[language] = ...                                           *)
Store(self) ==
    /\ At(self, "store")
    /\ parsers' = [parsers EXCEPT ![own_cache(self)] =
                     build_parser(InstanceState(self), available,
                                  call[self].req.language.val,
                                  Count(builds[self], call[self].req.language.val)).parsers]
    /\ Goes(self, "return")
    /\ UNCHANGED <<builds, available, result, state, session_state>>

(* return self._parsers[language], and what the caller makes of it.        *)
Return(self) ==
    /\ At(self, "return")
    /\ Gives(self, ParserValue(call[self].req,
                               parsers[own_cache(self)][call[self].req.language.val]))
    /\ UNCHANGED <<parsers, builds, available, state, session_state>>

Finish(self) ==
    /\ At(self, "done")
    /\ call' = [call EXCEPT ![self] = [pc |-> "idle"]]
    /\ result' = [result EXCEPT ![self] = None]
    /\ UNCHANGED <<parsers, builds, available, state, session_state>>

NextTwo ==
    \E self \in Instances :
        \/ Start(self)
        \/ Check(self)
        \/ Build(self)
        \/ Store(self)
        \/ Return(self)
        \/ Finish(self)

SpecTwo == InitTwo /\ [][NextTwo]_vars

----------------------------------------------------------------------------
(* DiagramGenerator (src/gitsplain/diagram.py): one generator, its state   *)
(* and a sequential caller of run_all.  A dict is a function from its      *)
(* keys and the empty dict is <<>>.  owner, repo, instructions, readme and *)
(* what the language model answers are strings; a file tree and a path are *)
(* text.  A page or diagram is the sequence of its non-empty pieces, so    *)
(* the empty str is <<>>.                                                  *)

len(d) == Cardinality(DOMAIN d)

get(d, key, default) == IF key \in DOMAIN d THEN d[key] ELSE default

RECURSIVE join(_, _)
join(sep, texts) ==
    IF texts = <<>> THEN <<>>
    ELSE IF Len(texts) = 1 THEN texts[1]
    ELSE texts[1] \o sep \o join(sep, Tail(texts))

RECURSIVE split(_, _)
split(s, sep) ==
    IF \A i \in 1..Len(s) : s[i] # sep THEN <<s>>
    ELSE <<SubSeq(s, 1, (CHOOSE i \in 1..Len(s) :
                           s[i] = sep /\ \A j \in 1..(i - 1) : s[j] # sep) - 1)>>
         \o split(SubSeq(s, (CHOOSE i \in 1..Len(s) :
                               s[i] = sep /\ \A j \in 1..(i - 1) : s[j] # sep) + 1, Len(s)),
                  sep)

GenerationState ==
    [owner |-> "", repo |-> "", instructions |-> "", repo_info |-> <<>>,
     static_analysis |-> <<>>, component_mapping |-> <<>>,
     graph_structure |-> <<>>, graph_html |-> <<>>]

(* GitHubClient, of a repository as GitHub serves it: its default branch,  *)
(* its blobs' paths, its README, its language statistics and the files    *)
(* whose content can be fetched.                                           *)
get_repo_data(remote) ==
    [default_branch |-> remote.default_branch,
     file_tree |-> join(<<"\n">>, remote.paths),
     readme |-> remote.readme]

get_languages(remote) == remote.languages

fetched(remote, path) == \E i \in DOMAIN remote.files : remote.files[i].path = path

content_at(remote, path) ==
    remote.files[CHOOSE i \in DOMAIN remote.files : remote.files[i].path = path].content

RECURSIVE get_files_content(_, _)
get_files_content(remote, paths) ==
    IF paths = <<>> THEN <<>>
    ELSE (IF fetched(remote, Head(paths))
          THEN <<File(Head(paths), content_at(remote, Head(paths)))>> ELSE <<>>)
         \o get_files_content(remote, Tail(paths))

(* self.state.owner = owner; self.state.repo = repo, which stand when the  *)
(* GitHub client raises.                                                   *)
fetch_started(st, owner, repo) == [st EXCEPT !.owner = owner, !.repo = repo]

fetch_repo_info(st, owner, repo, repo_data, languages) ==
    [fetch_started(st, owner, repo) EXCEPT !.repo_info =
        [owner |-> owner,
         repo |-> repo,
         default_branch |-> get(repo_data, "default_branch", "main"),
         file_tree |-> split(get(repo_data, "file_tree", <<>>), "\n"),
         readme |-> get(repo_data, "readme", ""),
         languages |-> languages]]

parseable(f) == \E ext \in DOMAIN EXTENSION_TO_LANGUAGE : endswith(f, ext)

parseable_files(st) == SelectSeq(get(st.repo_info, "file_tree", <<>>), parseable)

first(n, list) == SubSeq(list, 1, IF Len(list) < n THEN Len(list) ELSE n)

files_to_parse(st, max_files) == first(max_files, parseable_files(st))

count_classes(all_symbols) ==
    Cardinality({ i \in DOMAIN all_symbols : all_symbols[i].kind # "function" })

count_functions(all_symbols) ==
    Cardinality({ i \in DOMAIN all_symbols : all_symbols[i].kind = "function" })

analysis_of(st, all_symbols) ==
    [st EXCEPT !.static_analysis =
        [languages |-> get(st.repo_info, "languages", <<>>),
         files_parsed |->
            Cardinality({ all_symbols[i].filepath : i \in DOMAIN all_symbols }),
         total_classes |-> count_classes(all_symbols),
         total_functions |-> count_functions(all_symbols),
         symbols |-> all_symbols]]

(* What GitHub serves for an owner and a repository name; for a pair it   *)
(* does not know every fetch fails and get_file_content gives None.       *)
served(github, owner, repo) ==
    IF owner \in DOMAIN github /\ repo \in DOMAIN github[owner]
    THEN github[owner][repo]
    ELSE [default_branch |-> "main", paths |-> <<>>, files |-> <<>>,
          readme |-> "", languages |-> <<>>]

(* parser = ASTParser() is a new instance with an empty cache.             *)
analyze_symbols(st, github, avail, max_files) ==
    analysis_of(st,
        extract_from_files([parsers |-> <<>>, builds |-> <<>>], avail,
                           get_files_content(served(github, st.owner, st.repo),
                                             files_to_parse(st, max_files)),
                           TRUE).symbols)

paths_of(mappings, component) ==
    [ i \in DOMAIN SelectSeq(mappings, LAMBDA m : m.component = component) |->
        SelectSeq(mappings, LAMBDA m : m.component = component)[i].path ]

component_to_paths(mappings) ==
    IF mappings = <<>> THEN <<>>
    ELSE [ component \in { mappings[i].component : i \in DOMAIN mappings } |->
             paths_of(mappings, component) ]

(* The prompt is made of repo_info's file tree and README and of the       *)
(* symbols of static_analysis; response is what the language model makes   *)
(* of it.                                                                  *)
map_components(st, response) ==
    [st EXCEPT !.component_mapping =
        [mappings |-> response.mappings,
         by_component |-> component_to_paths(response.mappings)]]

build_graph(st, response) ==
    [st EXCEPT !.graph_structure = [nodes |-> response.nodes, edges |-> response.edges]]

GROUP_COLORS ==
       ("frontend" :> "#4CAF50")
    @@ ("backend" :> "#2196F3")
    @@ ("database" :> "#9C27B0")
    @@ ("service" :> "#FF9800")
    @@ ("external" :> "#607D8B")
    @@ ("config" :> "#795548")

node_line(node) == <<"node", node.id, node.label>>

edge_line(edge) ==
    IF edge.label.some /\ edge.label.val # ""
    THEN <<"edge", edge.source, edge.label.val, edge.target>>
    ELSE <<"edge", edge.source, edge.target>>

style_line(node) == <<"style", node.id, get(GROUP_COLORS, node.group, "#666")>>

render_mermaid(nodes, edges) ==
    << <<"flowchart TD">> >>
    \o [ i \in DOMAIN nodes |-> node_line(nodes[i]) ]
    \o [ i \in DOMAIN edges |-> edge_line(edges[i]) ]
    \o [ i \in DOMAIN nodes |-> style_line(nodes[i]) ]

render_html(nodes, edges) ==
    << <<"<!DOCTYPE html>">>, <<"<head>">>, <<"<body>">>, <<"<div class=mermaid>">> >>
    \o render_mermaid(nodes, edges)
    \o << <<"</div>">>, <<"<script>">>, <<"</body>">>, <<"</html>">> >>

generate_html(st) ==
    [st EXCEPT !.graph_html =
        render_html(get(st.graph_structure, "nodes", <<>>),
                    get(st.graph_structure, "edges", <<>>))]

(* A body that analyzes before it fetches.                                 *)
run_all_analyze_first ==
    <<"analyze_symbols", "fetch_repo_info", "map_components", "build_graph",
      "generate_html">>

(* The body of run_all after self.state.instructions = instructions.       *)
run_all_steps ==
    <<"fetch_repo_info", "analyze_symbols", "map_components", "build_graph",
      "generate_html">>

DefaultMaxFiles == 50

(* What run_all is called with, and what the services answer.              *)

Owners == {"marcalph", "octo"}

RepoNames == {"gitsplain", "notes", "polyglot"}

Instructions == {"", "custom instructions"}

Remote(paths, files, readme, languages) ==
    [default_branch |-> "main", paths |-> paths, files |-> files,
     readme |-> readme, languages |-> languages]

RepositoryFile(path) == CHOOSE f \in Repository : f.path = path

RECURSIVE Listing(_)
Listing(S) ==
    IF S = {} THEN <<>>
    ELSE <<CHOOSE x \in S : TRUE>> \o Listing(S \ {CHOOSE x \in S : TRUE})

NodeTypesOf(language) ==
    Listing(CLASS_NODE_TYPES[language]) \o Listing(FUNCTION_NODE_TYPES[language])

(* A file of one language: under the root, one named definition for each   *)
(* type and function node type the registry lists for the language.        *)
PolyglotTree(language) ==
    Node(RootType(language), 0, <<>>,
         [ i \in DOMAIN NodeTypesOf(language) |->
             Node(NodeTypesOf(language)[i], i, <<>>,
                  << NameChild("identifier", i, LevelName(i)) >>) ])

PolyglotFile(language) == File(PathFor(language), Text(PolyglotTree(language)))

PolyglotFiles(languages) ==
    [ i \in DOMAIN Listing(languages) |-> PolyglotFile(Listing(languages)[i]) ]

PolyglotPaths(languages) ==
    [ i \in DOMAIN Listing(languages) |-> PathFor(Listing(languages)[i]) ]

(* marcalph/gitsplain: two python files, one of them a test, and a README. *)
(* marcalph/notes: no blob at all.  octo/gitsplain: go and an upper-case   *)
(* extension.  octo/notes: a file whose content cannot be fetched.         *)
(* polyglot: one file for each language of the registry (marcalph), for    *)
(* ruby and php (octo).                                                    *)
GitHub ==
    ("marcalph" :>
        (   ("gitsplain" :>
                Remote(<<<<"s", "r", "c", "/", "a", ".", "p", "y">>,
                         <<"t", "e", "s", "t", "s", "/", "t", "e", "s", "t", "_", "a", ".", "p", "y">>,
                         <<"R", "E", "A", "D", "M", "E", ".", "m", "d">>>>,
                       <<RepositoryFile(<<"s", "r", "c", "/", "a", ".", "p", "y">>),
                         RepositoryFile(<<"t", "e", "s", "t", "s", "/", "t", "e", "s", "t", "_", "a", ".", "p", "y">>),
                         RepositoryFile(<<"R", "E", "A", "D", "M", "E", ".", "m", "d">>)>>,
                       "# Test", [Python |-> 100]))
         @@ ("notes" :> Remote(<<>>, <<>>, "", <<>>))
         @@ ("polyglot" :>
                Remote(PolyglotPaths(Languages), PolyglotFiles(Languages), "# All",
                       [Python |-> 1])) ))
    @@
    ("octo" :>
        (   ("gitsplain" :>
                Remote(<<<<"c", "m", "d", "/", "m", "a", "i", "n", ".", "g", "o">>,
                         <<"l", "i", "b", "/", "b", ".", "P", "Y">>>>,
                       <<RepositoryFile(<<"c", "m", "d", "/", "m", "a", "i", "n", ".", "g", "o">>),
                         RepositoryFile(<<"l", "i", "b", "/", "b", ".", "P", "Y">>)>>,
                       "", [Go |-> 7]))
         @@ ("notes" :>
                Remote(<<<<"s", "r", "c", "/", "a", ".", "p", "y">>,
                         <<"c", "m", "d", "/", "m", "a", "i", "n", ".", "g", "o">>>>,
                       <<RepositoryFile(<<"c", "m", "d", "/", "m", "a", "i", "n", ".", "g", "o">>)>>,
                       "# Notes", [Python |-> 10, Go |-> 5]))
         @@ ("polyglot" :>
                Remote(PolyglotPaths({"ruby", "php"}), PolyglotFiles({"ruby", "php"}), "",
                       [Ruby |-> 2, PHP |-> 1])) ))

ComponentMapping(component, role, path, is_directory) ==
    [component |-> component, role |-> role, path |-> path, is_directory |-> is_directory]

MappingResponses ==
    { [mappings |-> <<>>],
      [mappings |-> <<ComponentMapping("Parser", "parses", "src/a.py", FALSE),
                      ComponentMapping("CLI", "runs", "cmd/", TRUE),
                      ComponentMapping("Parser", "parses", "lib/", TRUE)>>] }

GraphNode(id, label, group) == [id |-> id, label |-> label, group |-> group]

GraphEdge(source, target, label) == [source |-> source, target |-> target, label |-> label]

GraphResponses ==
    { [nodes |-> <<>>, edges |-> <<>>],
      [nodes |-> <<GraphNode("parser", "Parser", "backend"), GraphNode("cli", "CLI", "tool")>>,
       edges |-> <<GraphEdge("cli", "parser", Some("calls")),
                   GraphEdge("parser", "cli", None)>>] }

InitDiagram ==
    /\ parsers = <<>>
    /\ available \in {{"python"}, {"python", "go"}, Languages}
    /\ builds = <<>>
    /\ call = Idle
    /\ result = None
    /\ state = GenerationState
    /\ session_state = None

(* shadow is the state of a generator constructed for this call alone and  *)
(* given the same answers.                                                 *)
RunAll ==
    /\ call = Idle
    /\ \E owner \in Owners, repo \in RepoNames, instructions \in Instructions :
        /\ state' = [state EXCEPT !.instructions = instructions]
        /\ call' = [op |-> "run_all", owner |-> owner, repo |-> repo,
                    instructions |-> instructions, pc |-> 1, trace |-> <<>>,
                    shadow |-> [GenerationState EXCEPT !.instructions = instructions],
                    raised |-> FALSE]
    /\ UNCHANGED <<parsers, available, builds, result, session_state>>

Running(step) ==
    /\ call # Idle
    /\ ~call.raised
    /\ call.pc <= Len(run_all_steps)
    /\ run_all_steps[call.pc] = step

Steps(step, st, shadow) ==
    /\ state' = st
    /\ call' = [call EXCEPT !.pc = @ + 1, !.trace = Append(@, step), !.shadow = shadow]
    /\ UNCHANGED <<parsers, available, builds, result, session_state>>

Raises(step, st, shadow) ==
    /\ state' = st
    /\ call' = [call EXCEPT !.raised = TRUE, !.trace = Append(@, step), !.shadow = shadow]
    /\ UNCHANGED <<parsers, available, builds, result, session_state>>

FetchRepoInfo ==
    /\ Running("fetch_repo_info")
    /\ \/ Steps("fetch_repo_info",
                fetch_repo_info(state, call.owner, call.repo,
                                get_repo_data(GitHub[call.owner][call.repo]),
                                get_languages(GitHub[call.owner][call.repo])),
                fetch_repo_info(call.shadow, call.owner, call.repo,
                                get_repo_data(GitHub[call.owner][call.repo]),
                                get_languages(GitHub[call.owner][call.repo])))
       \/ Raises("fetch_repo_info",
                 fetch_started(state, call.owner, call.repo),
                 fetch_started(call.shadow, call.owner, call.repo))

AnalyzeSymbols ==
    /\ Running("analyze_symbols")
    /\ Steps("analyze_symbols",
             analyze_symbols(state, GitHub, available, DefaultMaxFiles),
             analyze_symbols(call.shadow, GitHub, available, DefaultMaxFiles))

MapComponents ==
    /\ Running("map_components")
    /\ \/ \E response \in MappingResponses :
            Steps("map_components", map_components(state, response),
                  map_components(call.shadow, response))
       \/ Raises("map_components", state, call.shadow)

BuildGraph ==
    /\ Running("build_graph")
    /\ \/ \E response \in GraphResponses :
            Steps("build_graph", build_graph(state, response),
                  build_graph(call.shadow, response))
       \/ Raises("build_graph", state, call.shadow)

GenerateHtml ==
    /\ Running("generate_html")
    /\ Steps("generate_html", generate_html(state), generate_html(call.shadow))

(* return self.state                                                       *)
ReturnState ==
    /\ call # Idle
    /\ ~call.raised
    /\ call.pc = Len(run_all_steps) + 1
    /\ result = None
    /\ result' = Some(state)
    /\ UNCHANGED <<parsers, available, builds, call, state, session_state>>

(* The caller lets go of what run_all returned or raised; the generator    *)
(* keeps its state.                                                        *)
Release ==
    /\ call # Idle
    /\ call.raised \/ result # None
    /\ call' = Idle
    /\ result' = None
    /\ UNCHANGED <<parsers, available, builds, state, session_state>>

NextDiagram ==
    \/ RunAll
    \/ FetchRepoInfo
    \/ AnalyzeSymbols
    \/ MapComponents
    \/ BuildGraph
    \/ GenerateHtml
    \/ ReturnState
    \/ Release

SpecDiagram == InitDiagram /\ [][NextDiagram]_vars
----------------------------------------------------------------------------
(* parse_github_url (src/gitsplain/utils.py) and urllib.parse.urlparse as  *)
(* far as it reads: the scheme, the netloc and the path.                   *)

contains(s, sub) ==
    \E i \in 1..(Len(s) - Len(sub) + 1) : SubSeq(s, i, i + Len(sub) - 1) = sub

(* str.find(c) + 1: 0 when c is not in s.                                  *)
find(s, c) ==
    IF \A i \in 1..Len(s) : s[i] # c THEN 0
    ELSE CHOOSE i \in 1..Len(s) : s[i] = c /\ \A j \in 1..(i - 1) : s[j] # c

RECURSIVE lstrip_char(_, _)
lstrip_char(s, c) == IF s # <<>> /\ Head(s) = c THEN lstrip_char(Tail(s), c) ELSE s

RECURSIVE rstrip_char(_, _)
rstrip_char(s, c) ==
    IF s # <<>> /\ s[Len(s)] = c THEN rstrip_char(SubSeq(s, 1, Len(s) - 1), c) ELSE s

strip_char(s, c) == rstrip_char(lstrip_char(s, c), c)

Letters == { UpperCase[i] : i \in DOMAIN UpperCase } \cup { LowerCase[i] : i \in DOMAIN LowerCase }

scheme_chars == Letters \cup { Digits[i] : i \in DOMAIN Digits } \cup {"+", "-", "."}

has_scheme(url) ==
    /\ find(url, ":") > 1
    /\ url[1] \in Letters
    /\ \A i \in 1..(find(url, ":") - 1) : url[i] \in scheme_chars

after_scheme(url) ==
    IF has_scheme(url) THEN SubSeq(url, find(url, ":") + 1, Len(url)) ELSE url

(* The first of "/", "?" and "#" at or after position from, or Len + 1.    *)
delimiter(s, from, marks) ==
    IF \A i \in from..Len(s) : s[i] \notin marks THEN Len(s) + 1
    ELSE CHOOSE i \in from..Len(s) :
            s[i] \in marks /\ \A j \in from..(i - 1) : s[j] \notin marks

has_netloc(rest) == Len(rest) >= 2 /\ SubSeq(rest, 1, 2) = <<"/", "/">>

netloc_of(rest) ==
    IF has_netloc(rest) THEN SubSeq(rest, 3, delimiter(rest, 3, {"/", "?", "#"}) - 1)
    ELSE <<>>

after_netloc(rest) ==
    IF has_netloc(rest)
    THEN SubSeq(rest, delimiter(rest, 3, {"/", "?", "#"}), Len(rest))
    ELSE rest

path_of(rest) == SubSeq(rest, 1, delimiter(rest, 1, {"?", "#"}) - 1)

urlparse(url) ==
    [netloc |-> netloc_of(after_scheme(url)),
     path |-> path_of(after_netloc(after_scheme(url)))]

github_com == <<"g", "i", "t", "h", "u", "b", ".", "c", "o", "m">>

is_shorthand(url) ==
    /\ contains(url, <<"/">>)
    /\ ~contains(url, github_com)
    /\ ~contains(url, <<":", "/", "/">>)

Pair(parts) == [raised |-> FALSE, value |-> <<parts[1], parts[2]>>]

GithubException == [raised |-> TRUE, value |-> <<>>]

(* parsed.netloc and "github.com" not in parsed.netloc                     *)
foreign(netloc) == netloc # <<>> /\ ~contains(netloc, github_com)

parse_full(parsed) ==
    IF foreign(parsed.netloc) THEN GithubException
    ELSE IF Len(split(strip_char(parsed.path, "/"), "/")) < 2 THEN GithubException
    ELSE Pair(split(strip_char(parsed.path, "/"), "/"))

parse_github_url(url) ==
    IF is_shorthand(url) /\ Len(split(strip_char(url, "/"), "/")) >= 2
    THEN Pair(split(strip_char(url, "/"), "/"))
    ELSE parse_full(urlparse(url))

(* The texts parse_github_url is given: an optional scheme and host, up to *)
(* MaxSegments path segments and an optional trailing slash.  A text with  *)
(* no scheme is shorthand, whatever its first segment looks like.          *)

MaxSegments == 3

Schemes == { <<>>, <<"h", "t", "t", "p", "s">>, <<"h", "t", "t", "p">> }

OtherHosts == { <<"g", "i", "t", "l", "a", "b", ".", "c", "o", "m">>, <<"n", "o", "t", "g", "i", "t", "h", "u", "b", ".", "c", "o", "m">>, <<"g", "i", "t", "h", "u", "b", ".", "c", "o", "m", ".", "e", "v", "i", "l", ".", "o", "r", "g">>, <<"e", "x", "a", "m", "p", "l", "e", ".", "o", "r", "g">> }

Hosts == {github_com} \cup OtherHosts

Segment(k) ==
    CASE k = 1 -> <<"o", "w", "n", "e", "r">>
      [] k = 2 -> <<"r", "e", "p", "o">>
      [] k = 3 -> <<"t", "r", "e", "e">>
      [] OTHER -> <<"m", "a", "i", "n">>

UrlInputs ==
    { u \in [scheme : Schemes, host : Hosts \cup {<<>>}, segments : 0..MaxSegments,
             slash : BOOLEAN] :
        u.scheme # <<>> => u.host # <<>> }

Segments(u) ==
    (IF u.scheme = <<>> /\ u.host # <<>> THEN <<u.host>> ELSE <<>>)
    \o [ k \in 1..u.segments |-> Segment(k) ]

UrlText(u) ==
    (IF u.scheme # <<>> THEN u.scheme \o <<":", "/", "/">> \o u.host ELSE <<>>)
    \o (IF u.scheme # <<>> /\ u.segments > 0 THEN <<"/">> ELSE <<>>)
    \o join(<<"/">>, Segments(u))
    \o (IF u.slash THEN <<"/">> ELSE <<>>)

ParseGithubUrl ==
    /\ call = Idle
    /\ \E u \in UrlInputs :
        /\ call' = [op |-> "parse_github_url", input |-> u, url |-> UrlText(u),
                    raised |-> parse_github_url(UrlText(u)).raised]
        /\ result' = IF parse_github_url(UrlText(u)).raised THEN None
                     ELSE Some(parse_github_url(UrlText(u)).value)
        /\ UNCHANGED <<parsers, available, builds, state, session_state>>

SpecUrl == Init /\ [][ParseGithubUrl]_vars
----------------------------------------------------------------------------
(* extract_symbols on one definition whose body block holds up to MaxBody  *)
(* statements, stored under a python or a scala path (both grammars have   *)
(* class_definition and function_definition nodes).  d is [body, type,     *)
(* language, style]: the kind of each statement ("doc": an expression      *)
(* statement wrapping a string literal; "string": a string literal that is *)
(* itself a child of the block; "empty": an expression statement wrapping  *)
(* the empty literal; "call": an expression statement wrapping a call;     *)
(* "pass"; "comment"), and how the literals are written ("plain",          *)
(* "padded" with white space, "long": 201 characters).  The literal of the *)
(* i-th statement carries the digit i.                                     *)

MaxBody == 3

StatementKinds == {"doc", "string", "empty", "call", "pass", "comment"}

BodyStyles == {"plain", "padded", "long"}

BodyLanguages == {"python", "scala"}

Bodies == UNION { [1..n -> StatementKinds] : n \in 0..MaxBody }

LiteralText(i, style) ==
    IF style = "plain" THEN <<"d", Digit(i)>>
    ELSE IF style = "padded" THEN <<" ", "d", Digit(i), "\n">>
    ELSE <<Digit(i)>> \o DocBody(200)

Statement(kind, i, style) ==
    CASE kind = "doc" ->
            Node("expression_statement", i, <<>>, << DocString(i, LiteralText(i, style)) >>)
      [] kind = "string" -> DocString(i, LiteralText(i, style))
      [] kind = "empty" ->
            Node("expression_statement", i, <<>>, << DocString(i, <<>>) >>)
      [] kind = "call" ->
            Node("expression_statement", i, <<>>, << Leaf("call", i, <<>>) >>)
      [] kind = "pass" -> Leaf("pass_statement", i, <<>>)
      [] OTHER -> Leaf("comment", i, <<"#">>)

BodyName == <<"F", "o", "o">>

BodyTree(d) ==
    Node("module", 0, <<>>,
         << PyDef(d.type, 0, BodyName,
                  [ i \in DOMAIN d.body |-> Statement(d.body[i], i, d.style) ]) >>)

ExtractsBody(d, content, file_path) ==
    Returns(extract_symbols(State, available, content, file_path, None),
            [op |-> "extract_symbols", body |-> d, content |-> content,
             file_path |-> file_path, language |-> None, before |-> State,
             raised |-> FALSE],
            extract_symbols(State, available, content, file_path, None).symbols)

ExtractBody ==
    /\ call = Idle
    /\ \E body \in Bodies, type \in {"class_definition", "function_definition"},
          language \in BodyLanguages, style \in BodyStyles :
        ExtractsBody([body |-> body, type |-> type, language |-> language,
                      style |-> style],
                     Text(BodyTree([body |-> body, type |-> type, language |-> language,
                                    style |-> style])),
                     PathFor(language))

SpecBody == InitWalk /\ [][ExtractBody]_vars
----------------------------------------------------------------------------
(* The four-step wizard (src/app.py): a Streamlit script that runs from    *)
(* top to bottom on page load, on every change of the text input and on    *)
(* every button click, against the session's st.session_state, a mapping   *)
(* from the keys set so far.  st.button gives True only in the run its     *)
(* click started; st.rerun() ends the run and starts another one with the  *)
(* same input and no click.                                                *)

has(session, key) == key \in DOMAIN session

set(session, key, value) == (key :> value) @@ session

default(session, key, value) == IF has(session, key) THEN session ELSE set(session, key, value)

(* if "stepN_complete" not in st.session_state: ... = False, four times.  *)
initialized(session) ==
    default(default(default(default(session, "step1_complete", FALSE),
                            "step2_complete", FALSE),
                    "step3_complete", FALSE),
            "step4_complete", FALSE)

completes(session, data, value, flag) == set(set(session, data, value), flag, TRUE)

api_result(repo_url) == [repository |-> repo_url, total_files |-> 8, total_components |-> 4]

(* A step 3 that asks for step 1 only.                                     *)
step3_open_after_step1(session) == session["step1_complete"]

step2_open(session) == session["step1_complete"]

step3_open(session) == session["step2_complete"]

step4_open(session) == session["step3_complete"]

Stops(session, buttons) == [session |-> session, buttons |-> buttons, rerun |-> TRUE]

Ends(session, buttons) == [session |-> session, buttons |-> buttons, rerun |-> FALSE]

(* The expanders from step k on, session being initialized and buttons the *)
(* buttons rendered so far in the run.                                     *)
step4(session, repo_url, clicked, buttons) ==
    IF ~step4_open(session) THEN Ends(session, buttons)
    ELSE IF clicked = "step4_btn"
    THEN Stops(completes(session, "html_graph", "MY GRAPH HERE", "step4_complete"),
               buttons \cup {"step4_btn"})
    ELSE Ends(session, buttons \cup {"step4_btn"})

step3(session, repo_url, clicked, buttons) ==
    IF ~step3_open(session) THEN step4(session, repo_url, clicked, buttons)
    ELSE IF clicked = "step3_btn"
    THEN Stops(completes(session, "api_result", api_result(repo_url), "step3_complete"),
               buttons \cup {"step3_btn"})
    ELSE step4(session, repo_url, clicked, buttons \cup {"step3_btn"})

step2(session, repo_url, clicked, buttons) ==
    IF ~step2_open(session) THEN step3(session, repo_url, clicked, buttons)
    ELSE IF clicked = "step2_btn"
    THEN Stops(completes(session, "component_matches", "fake_matches", "step2_complete"),
               buttons \cup {"step2_btn"})
    ELSE step3(session, repo_url, clicked, buttons \cup {"step2_btn"})

step1(session, repo_url, clicked, buttons) ==
    IF repo_url = "" THEN step2(session, repo_url, clicked, buttons)
    ELSE IF clicked = "step1_btn"
    THEN Stops(completes(session, "repository_files", "fake_files", "step1_complete"),
               buttons \cup {"step1_btn"})
    ELSE step2(session, repo_url, clicked, buttons \cup {"step1_btn"})

script(session, repo_url, clicked) == step1(initialized(session), repo_url, clicked, {})

RepoUrls == {"", "https://github.com/username/repository", "marcalph/gitsplain", "x"}

Buttons == {"step1_btn", "step2_btn", "step3_btn", "step4_btn"}

InitWizard ==
    /\ parsers = <<>>
    /\ available = {}
    /\ builds = <<>>
    /\ call = Idle
    /\ result = None
    /\ state = None
    /\ session_state = <<>>

Runs(repo_url, clicked) ==
    /\ session_state' = script(session_state, repo_url, clicked).session
    /\ call' = [op |-> "run", repo_url |-> repo_url, clicked |-> clicked,
                rerun |-> script(session_state, repo_url, clicked).rerun]
    /\ result' = Some(script(session_state, repo_url, clicked).buttons)
    /\ UNCHANGED <<parsers, available, builds, state>>

(* The page is opened: the first run, with an empty text input.            *)
LoadPage ==
    /\ call = Idle
    /\ Runs("", "none")

(* The user commits another text in the input.                             *)
EnterUrl ==
    /\ call # Idle
    /\ ~call.rerun
    /\ \E repo_url \in RepoUrls \ {call.repo_url} : Runs(repo_url, "none")

(* The browser reports a click on a button, rendered by the last run or    *)
(* not; the text input is as it was.                                       *)
Click ==
    /\ call # Idle
    /\ ~call.rerun
    /\ \E button \in Buttons : Runs(call.repo_url, button)

(* The run st.rerun() asked for.                                           *)
Rerun ==
    /\ call # Idle
    /\ call.rerun
    /\ Runs(call.repo_url, "none")

NextWizard == LoadPage \/ EnterUrl \/ Click \/ Rerun

SpecWizard == InitWizard /\ [][NextWizard]_vars
----------------------------------------------------------------------------
(* Properties.                                                             *)

IsExtractFromFiles == call.op = "extract_from_files"

IsExtractSymbols == call.op = "extract_symbols"

IsGetParser == call.op = "get_parser"

NotTest(symbol) == ~_is_test_file(symbol.filepath)

(* The path of the file a symbol was taken from, as a position in files.   *)
FileIndex(files, symbol) == CHOOSE k \in DOMAIN files : files[k].path = symbol.filepath

(* What one file yields when it is extracted on its own.                   *)
Alone(file) ==
    extract_symbols(call.before, available, file.content, file.path, None).symbols

(* C1: with exclude_tests=true extract_from_files returns no symbol of a   *)
(* file that _is_test_file flags, and returns what the same call with      *)
(* exclude_tests=false returns once the symbols of flagged files are taken *)
(* out; with exclude_tests=false the symbols of test and non-test files    *)
(* all appear, in the order of the files.                                  *)
C1_ExcludeTests ==
    IsExtractFromFiles =>
        LET all == extract_from_files(call.before, available, call.files, FALSE).symbols
        IN  /\ call.exclude_tests =>
                /\ \A i \in DOMAIN result : NotTest(result[i])
                /\ result = SelectSeq(all, NotTest)
            /\ ~call.exclude_tests =>
                /\ result = all
                /\ \A k \in DOMAIN call.files :
                      \A j \in DOMAIN Alone(call.files[k]) :
                          \E i \in DOMAIN result : result[i] = Alone(call.files[k])[j]
                /\ \A i, j \in DOMAIN result :
                      i < j => FileIndex(call.files, result[i])
                                  <= FileIndex(call.files, result[j])

(* A call with exclude_tests=true on a test file and a non-test file that  *)
(* both hold symbols: the test file's symbols are left out.                *)
C1_Witness ==
    /\ IsExtractFromFiles
    /\ call.exclude_tests
    /\ result # <<>>
    /\ \E k \in DOMAIN call.files :
          /\ _is_test_file(call.files[k].path)
          /\ Alone(call.files[k]) # <<>>

FileLanguage(file) == detect_language(file.path)

(* A file that fails: no language for its extension, no parser for its     *)
(* language, or a parse that raises.                                       *)
Fails(file) ==
    \/ ~FileLanguage(file).some
    \/ FileLanguage(file).val \notin available
    \/ ~file.content.utf8

Succeeds(file) == ~Fails(file)

(* C2: extract_from_files does not raise whatever files fail; a failing    *)
(* file contributes no symbol, and the result is the result of the same    *)
(* call on the mapping without the failing files.                          *)
C2_BestEffortBatch ==
    IsExtractFromFiles =>
        /\ ~call.raised
        /\ \A k \in DOMAIN call.files :
              Fails(call.files[k]) =>
                  \A i \in DOMAIN result : result[i].filepath # call.files[k].path
        /\ result = extract_from_files(call.before, available,
                                       SelectSeq(call.files, Succeeds),
                                       call.exclude_tests).symbols

(* A batch with a file whose parse raises next to a file that parses: the  *)
(* call returns the symbols of the second.                                 *)
C2_Witness ==
    /\ IsExtractFromFiles
    /\ ~call.raised
    /\ result # <<>>
    /\ \E k \in DOMAIN call.files :
          /\ ~call.files[k].content.utf8
          /\ FileLanguage(call.files[k]).some
          /\ FileLanguage(call.files[k]).val \in available

RECURSIVE Preorder(_, _)
RECURSIVE PreorderFrom(_, _, _)
(* The nodes of a tree with their depths, parents before children and      *)
(* children in their original order.                                       *)
Preorder(node, depth) ==
    << [node |-> node, depth |-> depth] >> \o PreorderFrom(node.children, 1, depth + 1)

PreorderFrom(children, i, depth) ==
    IF i > Len(children) THEN <<>>
    ELSE Preorder(children[i], depth) \o PreorderFrom(children, i + 1, depth)

RECURSIVE Flatten(_)
Flatten(seqs) == IF seqs = <<>> THEN <<>> ELSE Head(seqs) \o Flatten(Tail(seqs))

ClassTypes(language) ==
    IF language \in DOMAIN CLASS_NODE_TYPES THEN CLASS_NODE_TYPES[language] ELSE {}

FunctionTypes(language) ==
    IF language \in DOMAIN FUNCTION_NODE_TYPES THEN FUNCTION_NODE_TYPES[language] ELSE {}

(* The symbol of each node of the tree that yields one, the nodes taken in *)
(* depth-first pre-order.                                                  *)
DocumentOrder(file, language) ==
    LET nodes == SelectSeq(Preorder(file.content.tree, 0),
                           LAMBDA e : ~too_deep(e.depth))
    IN  Flatten([i \in DOMAIN nodes |->
                    visit(nodes[i].node, file.content, file.path, language,
                          ClassTypes(language), FunctionTypes(language),
                          nodes[i].depth)])

Processed(file) ==
    /\ Succeeds(file)
    /\ ~(call.exclude_tests /\ _is_test_file(file.path))

(* C3: the result of extract_from_files is the concatenation, in the order *)
(* of the mapping, of the symbols of each processed file, each file's      *)
(* symbols in depth-first pre-order of its tree; nothing is reordered or   *)
(* dropped as a duplicate.                                                 *)
C3_FileThenDocumentOrder ==
    IsExtractFromFiles =>
        result = Flatten([k \in DOMAIN call.files |->
                            IF Processed(call.files[k])
                            THEN DocumentOrder(call.files[k],
                                               FileLanguage(call.files[k]).val)
                            ELSE <<>>])

(* Two files that each define User, extracted after a file with nested     *)
(* definitions: both User symbols are in the result.                       *)
C3_Witness ==
    /\ IsExtractFromFiles
    /\ Len(result) >= 5
    /\ \E i, j \in DOMAIN result :
          /\ i < j
          /\ result[i].name = result[j].name
          /\ result[i].filepath # result[j].filepath

(* C4: once building the parser of a grammar id has failed, no later call  *)
(* attempts to build it again: a grammar id the pack cannot build is asked *)
(* of the pack at most once.                                               *)
C4_FailureNotRetried ==
    \A language \in GrammarIds :
        language \notin available => Count(builds, language) <= 1

(* C5: a parser is built only when a call asks for its grammar, at most    *)
(* once per grammar id that builds; a later request returns the cached     *)
(* handle, and no call (a failing build included) changes or removes a     *)
(* cached entry.                                                           *)
Requested(language) ==
    \/ IsGetParser /\ call.language = language
    \/ IsExtractSymbols /\ call.language.some /\ call.language.val = language
    \/ IsExtractSymbols /\ detect_language(call.file_path) = Some(language)
    \/ IsExtractFromFiles
       /\ \E k \in DOMAIN call.files : FileLanguage(call.files[k]) = Some(language)

C5_ParserBuiltOnce ==
    /\ DOMAIN parsers \subseteq DOMAIN builds
    /\ \A language \in DOMAIN builds :
          language \in available => builds[language] = 1
    /\ call # Idle =>
          /\ \A language \in DOMAIN call.before.parsers :
                /\ language \in DOMAIN parsers
                /\ parsers[language] = call.before.parsers[language]
          /\ \A language \in DOMAIN builds :
                Count(builds, language) > Count(call.before.builds, language)
                    => Requested(language)
    /\ (IsGetParser /\ call.language \in DOMAIN call.before.parsers) =>
          /\ result = Some(call.before.parsers[call.language])
          /\ builds = call.before.builds

(* A second get_parser for a cached grammar, made after the build of       *)
(* another grammar failed: the cached handle comes back.                   *)
C5_Witness ==
    /\ IsGetParser
    /\ call.language \in DOMAIN call.before.parsers
    /\ result.some
    /\ \E other \in DOMAIN builds : other \notin available

IsChain == call # Idle /\ "chain" \in DOMAIN call

Functions(symbols) == SelectSeq(symbols, LAMBDA y : y.kind = "function")

Named(p, k) == p.unnamed # k /\ p.naming # "empty"

(* A type whose body holds a function: root -> type -> body -> function.   *)
IsMethodChain(p) ==
    /\ p.language \in {"python", "javascript", "java"}
    /\ p.roles[1] = "type" /\ p.roles[2] = "body" /\ p.roles[3] = "function"
    /\ Named(p, 3)

(* C6: a named function node that is a member of a top-level type (root -> *)
(* type -> body -> function, Python, JavaScript or Java) is emitted as a   *)
(* function symbol.                                                        *)
C6_MethodsEmitted ==
    (IsChain /\ IsMethodChain(call.chain)) =>
        \E i \in DOMAIN result :
            result[i].kind = "function" /\ result[i].name = LevelName(3)

(* A function whose body holds a function: root -> function -> block ->    *)
(* function, in Python.                                                    *)
IsNestedFunctionChain(p) ==
    /\ p.language = "python"
    /\ p.roles[1] = "function" /\ p.roles[2] = "body" /\ p.roles[3] = "function"
    /\ Named(p, 1)

(* C7: for a Python tree root -> function -> block -> function, the result *)
(* holds exactly one function symbol, the outer function's; the inner      *)
(* function is not emitted.                                                *)
C7_NestedFunctionSuppressed ==
    (IsChain /\ IsNestedFunctionChain(call.chain)) =>
        /\ Len(Functions(result)) = 1
        /\ Functions(result)[1].name = LevelName(1)
        /\ Functions(result)[1].line = 2
        /\ \A i \in DOMAIN result : result[i].name # LevelName(3)

(* The outer and the inner function both carry a name; one symbol comes    *)
(* back.                                                                   *)
C7_Witness ==
    /\ IsChain
    /\ IsNestedFunctionChain(call.chain)
    /\ Named(call.chain, 3)
    /\ Len(result) = 1

Kinds == {"class", "struct", "interface", "function"}

(* C8: every returned symbol, whatever the language and the node type it   *)
(* was made from, has a kind in {class, struct, interface, function}.      *)
C8_KindClosedSet ==
    IsChain => \A i \in DOMAIN result : result[i].kind \in Kinds

(* A type node that kind_map does not list and a function node, both       *)
(* emitted.                                                                *)
C8_Witness ==
    /\ IsChain
    /\ call.chain.tnode \notin DOMAIN kind_map
    /\ \E i, j \in DOMAIN result :
          result[i].kind = "class" /\ result[j].kind = "function"

(* The visited nodes of the tree of the call, with their depths.           *)
Visited == SelectSeq(Preorder(call.content.tree, 0), LAMBDA e : ~too_deep(e.depth))

ComesFrom(symbol, node, language) ==
    /\ node.type \in ClassTypes(language) \cup FunctionTypes(language)
    /\ _get_name(node, language) = Some(symbol.name)
    /\ symbol.line = node.row + 1

(* C9: every emitted symbol comes from a visited node whose type is in the *)
(* type or function set of the language and whose name extraction gave a   *)
(* non-empty name; no symbol has an empty name.                            *)
C9_SymbolFromNamedNode ==
    IsChain =>
        \A i \in DOMAIN result :
            /\ result[i].name # <<>>
            /\ \E k \in DOMAIN Visited :
                  ComesFrom(result[i], Visited[k].node, call.chain.language)

(* A type without a name child, or with a zero-width name, next to a named *)
(* sibling: only the sibling is emitted.                                   *)
C9_Witness ==
    /\ IsChain
    /\ call.chain.roles[1] = "type"
    /\ call.chain.unnamed = 1
    /\ call.chain.siblings
    /\ result # <<>>
    /\ \A i \in DOMAIN result : result[i].line # 2

IsDetect == call # Idle /\ call.op = "detect_language"

Registered(ext) ==
    IF ext \in DOMAIN EXTENSION_TO_LANGUAGE THEN Some(EXTENSION_TO_LANGUAGE[ext]) ELSE None

(* The extension, in lower case, of the path put together from q: its last *)
(* dot-separated part, unless the file name has none or is a dotfile.      *)
ExtensionOf(q) ==
    IF q.base = <<>> /\ (q.inner = <<>> \/ q.ext = <<>>) THEN <<>>
    ELSE IF q.ext # <<>> THEN q.ext
    ELSE q.inner

Py == <<".", "p", "y">>

(* C10: detect_language depends on the extension of the path only, letter  *)
(* case aside: the registered grammar id for an extension of the registry  *)
(* (.py, .pyi -> python; .js, .jsx -> javascript; .ts -> typescript; .tsx  *)
(* -> tsx), none for any other extension and for a path without one.       *)
C10_DetectLanguage ==
    IsDetect =>
        /\ result = Registered(ExtensionOf(call.input))
        /\ ExtensionOf(call.input) \in {Py, Py \o <<"i">>} => result = Some("python")
        /\ ExtensionOf(call.input) \in {<<".", "j", "s">>, <<".", "j", "s", "x">>}
              => result = Some("javascript")
        /\ ExtensionOf(call.input) = <<".", "t", "s">> => result = Some("typescript")
        /\ ExtensionOf(call.input) = <<".", "t", "s", "x">> => result = Some("tsx")
        /\ ExtensionOf(call.input) \notin DOMAIN EXTENSION_TO_LANGUAGE => result = None

(* An upper-case .PY after an inner extension, under a directory with a    *)
(* dot in its name.                                                        *)
C10_Witness ==
    /\ IsDetect
    /\ call.input.casing = "upper"
    /\ call.input.ext = Py
    /\ call.input.inner # <<>>
    /\ call.input.dir = <<".", "/", "v", "1", ".", "2", "/">>
    /\ result = Some("python")

IsClassify == call # Idle /\ call.op = "is_test_file"

InTestDir(q) == q.test.name # 0

(* The file name itself is a test-directory name: the last path segment.   *)
NamedLikeTestDir(q) ==
    \E i \in DOMAIN TestDirNames :
        \E c \in Casings : NameText(q.file) = Cased(TestDirNames[i], c)

C12_FilenamePatterns ==
    (IsClassify /\ ~InTestDir(call.input)) =>
        /\ call.input.file.how \in {"suffix", "prefix"} => result = TRUE
        /\ (call.input.file.how = "plain" /\ call.input.file.ext \in NoPatternExts)
              => result = FALSE

(* test_m.py under plain directories: only the prefix rule flags it.       *)
C12_Witness ==
    /\ IsClassify
    /\ ~InTestDir(call.input)
    /\ call.input.dirs = 2
    /\ call.input.file.how = "prefix"
    /\ call.file_path = PlainDirs[1] \o <<"/">> \o PlainDirs[2] \o <<"/">>
                           \o <<"t", "e", "s", "t", "_", "m", ".", "p", "y">>
    /\ result = TRUE

IsPyPath(q) == endswith(NameText(q.file), Py)

(* C13: a .py path with no test-directory segment is a test file if and    *)
(* only if its file name starts with "test_", ends with "_test.py" or is   *)
(* "conftest.py".                                                          *)
C13_PythonRule ==
    (IsClassify /\ ~InTestDir(call.input) /\ IsPyPath(call.input)) =>
        (result = TRUE <=>
            \/ startswith(NameText(call.input.file), <<"t", "e", "s", "t", "_">>)
            \/ endswith(NameText(call.input.file), <<"_", "t", "e", "s", "t">> \o Py)
            \/ NameText(call.input.file) = <<"c", "o", "n", "f", "t", "e", "s", "t">> \o Py)

IsDoc == call # Idle /\ "doc" \in DOMAIN call

Marker == <<".", ".", ".">>

(* C14: a docstring whose stripped text is longer than 200 characters is   *)
(* emitted as its first 200 characters followed by "..."; one of 200       *)
(* characters or fewer is emitted as it is; none is longer than 203.       *)
C14_DocstringTruncation ==
    IsDoc =>
        /\ Len(result) = 1
        /\ DocText(call.doc) # <<>> => result[1].docstring.some
        /\ result[1].docstring.some =>
              /\ call.doc.len > 200 =>
                    result[1].docstring.val = DocBody(200) \o Marker
              /\ call.doc.len <= 200 =>
                    result[1].docstring.val = DocBody(call.doc.len)
              /\ Len(result[1].docstring.val) <= 203

(* A docstring of 201 characters between white space: 200 are kept and the *)
(* marker follows.                                                         *)
C14_Witness ==
    /\ IsDoc
    /\ call.doc.len = 201
    /\ call.doc.lpad # <<>> /\ call.doc.rpad # <<>>
    /\ call.doc.shape = "statement"
    /\ Len(result[1].docstring.val) = 203

IsRender == call # Idle /\ call.op = "str"

KindText ==
    [class |-> <<"c", "l", "a", "s", "s">>, struct |-> <<"s", "t", "r", "u", "c", "t">>, interface |-> <<"i", "n", "t", "e", "r", "f", "a", "c", "e">>, function |-> <<"f", "u", "n", "c", "t", "i", "o", "n">>]

(* The decimal digits of a line number below 10000, place by place.        *)
Decimal(n) ==
    (IF n >= 1000 THEN <<Digits[((n \div 1000) % 10) + 1]>> ELSE <<>>)
    \o (IF n >= 100 THEN <<Digits[((n \div 100) % 10) + 1]>> ELSE <<>>)
    \o (IF n >= 10 THEN <<Digits[((n \div 10) % 10) + 1]>> ELSE <<>>)
    \o <<Digits[(n % 10) + 1]>>

Rendered(y) ==
    KindText[y.kind] \o <<" ">> \o y.name \o <<" ", "@", " ">> \o y.filepath
    \o <<":">> \o Decimal(y.line)

Dash == <<" ", "-", " ">>

TestSymbols ==
    << Symbol(<<"M", "y", "C", "l", "a", "s", "s">>, "class", 42, <<"s", "r", "c", "/", "m", "o", "d", "e", "l", "s", ".", "p", "y">>, "python", None),
       Symbol(<<"p", "r", "o", "c", "e", "s", "s", "_", "d", "a", "t", "a">>, "function", 15, <<"s", "r", "c", "/", "u", "t", "i", "l", "s", ".", "p", "y">>, "python", Some(<<"P", "r", "o", "c", "e", "s", "s", " ", "i", "n", "p", "u", "t", " ", "d", "a", "t", "a", ".">>)),
       Symbol(<<"I", "S", "e", "r", "v", "i", "c", "e">>, "interface", 8, <<"s", "r", "c", "/", "s", "e", "r", "v", "i", "c", "e", "s", ".", "t", "s">>, "typescript", None) >>

TestStrings ==
    << <<"c", "l", "a", "s", "s", " ", "M", "y", "C", "l", "a", "s", "s", " ", "@", " ", "s", "r", "c", "/", "m", "o", "d", "e", "l", "s", ".", "p", "y", ":", "4", "2">>,
       <<"f", "u", "n", "c", "t", "i", "o", "n", " ", "p", "r", "o", "c", "e", "s", "s", "_", "d", "a", "t", "a", " ", "@", " ", "s", "r", "c", "/", "u", "t", "i", "l", "s", ".", "p", "y", ":", "1", "5", " ", "-", " ", "P", "r", "o", "c", "e", "s", "s", " ", "i", "n", "p", "u", "t", " ", "d", "a", "t", "a", ".">>,
       <<"i", "n", "t", "e", "r", "f", "a", "c", "e", " ", "I", "S", "e", "r", "v", "i", "c", "e", " ", "@", " ", "s", "r", "c", "/", "s", "e", "r", "v", "i", "c", "e", "s", ".", "t", "s", ":", "8">> >>

(* C15 as stated: the rendering is "<kind> <name> @ <filepath>:<line>",    *)
(* followed by " - <docstring>" if and only if the symbol has a docstring  *)
(* (its docstring is not None).                                            *)
C15_SuffixIffPresent ==
    IsRender =>
        result = IF call.symbol.docstring.some
                 THEN Rendered(call.symbol) \o Dash \o call.symbol.docstring.val
                 ELSE Rendered(call.symbol)

(* C15, amended: the rendering is "<kind> <name> @ <filepath>:<line>",     *)
(* followed by " - <docstring>" if and only if the symbol has a docstring  *)
(* that is not empty; the renderings the test suite expects are among the  *)
(* cases.                                                                  *)
C15_SuffixIffNonEmpty ==
    IsRender =>
        /\ result = IF call.symbol.docstring.some /\ call.symbol.docstring.val # <<>>
                    THEN Rendered(call.symbol) \o Dash \o call.symbol.docstring.val
                    ELSE Rendered(call.symbol)
        /\ \A i \in DOMAIN TestSymbols :
              call.symbol = TestSymbols[i] => result = TestStrings[i]

(* A class whose docstring is the empty string: no " - " is appended.      *)
C15_Witness ==
    /\ IsRender
    /\ call.symbol.docstring = Some(<<>>)
    /\ call.symbol.line = 42
    /\ result = TestStrings[1]

Fresh == [parsers |-> <<>>, builds |-> <<>>]

(* C16: running extract_from_files again on the same mapping gives the     *)
(* same sequence of symbols, on the same instance (whose cache the first   *)
(* run has changed) and on a new instance.                                 *)
C16_Deterministic ==
    IsExtractFromFiles =>
        /\ result = extract_from_files(State, available, call.files,
                                       call.exclude_tests).symbols
        /\ result = extract_from_files(Fresh, available, call.files,
                                       call.exclude_tests).symbols

(* A first run that built a parser and returned symbols, on an instance    *)
(* that had already failed to build another grammar.                       *)
C16_Witness ==
    /\ IsExtractFromFiles
    /\ result # <<>>
    /\ parsers # call.before.parsers
    /\ call.before.builds # <<>>

NoLanguage(language) == ~language.some \/ language.val = ""

(* C17: extract_symbols on a path whose extension is not in the registry,  *)
(* with no language given, returns the empty sequence and does not raise,  *)
(* whatever the content.                                                   *)
C17_UnknownExtension ==
    (/\ IsExtractSymbols
     /\ NoLanguage(call.language)
     /\ call.file_path \in UnregisteredPaths \cup {<<"R", "E", "A", "D", "M", "E", ".", "m", "d">>}) =>
        /\ ~call.raised
        /\ result = <<>>
        /\ State = call.before

(* notes.TXT holding the Python classes, on an instance with a python      *)
(* parser in its cache.                                                    *)
C17_Witness ==
    /\ IsExtractSymbols
    /\ call.language = None
    /\ call.file_path = <<"n", "o", "t", "e", "s", ".", "T", "X", "T">>
    /\ call.content = Text(PyModels)
    /\ "python" \in DOMAIN parsers
    /\ result = <<>>

(* One top-level class whose body is a docstring and pass, as tree-sitter  *)
(* builds it.                                                              *)
IsDocClass ==
    IsDoc /\ call.doc.type = "class_definition" /\ call.doc.shape = "statement"

ClassSymbol(d, docstring) ==
    << Symbol(d.name, "class", d.row + 1, DocPath, "python", docstring) >>

(* C18 as stated: such a class yields exactly one symbol, with kind class, *)
(* the class's name, the 1-indexed line of the class definition, the path  *)
(* supplied, language python and, as docstring, the inner text of the      *)
(* string literal.                                                         *)
C18_DocstringIsInnerText ==
    IsDocClass => result = ClassSymbol(call.doc, Some(DocText(call.doc)))

(* The inner text without its surrounding white space, cut as C14 says;    *)
(* no docstring for the empty literal.                                     *)
EmittedDoc(d) ==
    IF DocText(d) = <<>> THEN None
    ELSE IF d.len > 200 THEN Some(DocBody(200) \o Marker)
    ELSE Some(DocBody(d.len))

(* C18, amended: such a class yields exactly one symbol, with kind class,  *)
(* the class's name, the 1-indexed line of the class definition, the path  *)
(* supplied, language python and, as docstring, the inner text of the      *)
(* string literal stripped of surrounding white space and cut to 200       *)
(* characters plus "..." when longer (no docstring when the literal is     *)
(* empty).                                                                 *)
C18_ClassWithDocstring ==
    IsDocClass => result = ClassSymbol(call.doc, EmittedDoc(call.doc))

(* class Foo on the second line, its docstring abc between white space.    *)
C18_Witness ==
    /\ IsDocClass
    /\ call.doc.row = 1
    /\ call.doc.name = <<"F", "o", "o">>
    /\ call.doc.len = 3
    /\ call.doc.lpad # <<>> /\ call.doc.rpad # <<>>
    /\ result[1].line = 2
    /\ result[1].docstring = Some(<<"a", "b", "c">>)

(* A step of one instance's thread leaves the other instance's cache and   *)
(* its count of pack calls as they were.                                   *)
OthersUntouched ==
    \A self, other \in Instances :
        (self # other /\ call'[self] # call[self]) =>
            /\ parsers'[other] = parsers[other]
            /\ builds'[other] = builds[other]

(* An instance holds a parser for a grammar only if it has itself asked    *)
(* the pack for it, once.                                                  *)
BuiltByOwner ==
    \A self \in Instances :
        \A language \in DOMAIN parsers[self] : Count(builds[self], language) = 1

(* C19: in every interleaving of calls on two instances, a step of a call  *)
(* on one instance never adds, removes or changes an entry of the other    *)
(* instance's cache, and each instance builds its own parser for a grammar *)
(* it uses.                                                                *)
C19_CachePerInstance == [][OthersUntouched]_vars /\ []BuiltByOwner

(* Both instances hold a python parser, the second built while the first   *)
(* one's call was between its membership test and its store.               *)
C19_Witness ==
    /\ call["p1"].pc = "store"
    /\ call["p1"].req.language = Some("python")
    /\ "python" \in DOMAIN parsers["p2"]
    /\ "python" \notin DOMAIN parsers["p1"]
    /\ call["p2"].pc = "done"
    /\ call["p2"].req.op = "extract_symbols"
    /\ result["p2"] # <<>>

IsRunAll == call # Idle /\ call.op = "run_all"

Returned == IsRunAll /\ result # None

IsPrefix(s, t) == Len(s) <= Len(t) /\ SubSeq(t, 1, Len(s)) = s

IsParseUrl == call.op = "parse_github_url"

(* C22: parse_github_url returns the first two path segments only for     *)
(* owner/repo shorthand and for a URL whose host is github.com; it raises  *)
(* GithubException for every URL of another host and for every input with  *)
(* fewer than two path segments.                                           *)
C22_ParseGithubUrl ==
    IsParseUrl =>
        /\ (call.input.scheme # <<>> /\ call.input.host # github_com) => call.raised
        /\ Len(Segments(call.input)) < 2 => call.raised
        /\ ~call.raised =>
            /\ call.input.scheme = <<>> \/ call.input.host = github_com
            /\ result = Some(<<Segments(call.input)[1], Segments(call.input)[2]>>)

(* The symbol of the chain's definition at depth k, and of its sibling.    *)
EmittedLevel(k) == \E i \in DOMAIN result : result[i].name = LevelName(k) /\ result[i].line = k + 1

EmittedSibling(k) == \E i \in DOMAIN result : result[i].name = SiblingName(k) /\ result[i].line = 21 - k

LevelKinds(k) == { result[i].kind : i \in { j \in DOMAIN result : result[j].name = LevelName(k) /\ result[j].line = k + 1 } }

TypeLevels == { k \in 1..Len(call.chain.roles) : call.chain.roles[k] = "type" }

FunctionLevels == { k \in 1..Len(call.chain.roles) : call.chain.roles[k] = "function" }

DefaultsKept ==
    /\ \A k \in TypeLevels :
          LevelKinds(k) \subseteq
            {IF call.chain.tnode \in DOMAIN kind_map THEN kind_map[call.chain.tnode] ELSE "class"}
    /\ \A k \in FunctionLevels :
          LevelKinds(k) \subseteq
            {IF call.chain.fnode \in DOMAIN kind_map THEN kind_map[call.chain.fnode]
             ELSE "function"}

(* C24 as claimed: the lookup table has an entry for every type and        *)
(* function node type of the registry, and a node type absent from it      *)
(* keeps the default kind of the branch that matched.                      *)
C24_TableCoversRegistry ==
    IsChain =>
        /\ call.chain.tnode \in DOMAIN kind_map
        /\ call.chain.fnode \in DOMAIN kind_map
        /\ DefaultsKept

(* C24 amended: the lookup table has an entry for every type node type of  *)
(* the registry but Ruby's class and PHP's trait_declaration, and for no   *)
(* function node type; a node type absent from it keeps the default kind   *)
(* of the branch that matched (class, function).                           *)
C24_TableCoversMostTypes ==
    IsChain =>
        /\ call.chain.tnode \in DOMAIN kind_map
              <=> call.chain.tnode \notin {"class", "trait_declaration"}
        /\ call.chain.fnode \notin DOMAIN kind_map
        /\ DefaultsKept

(* A PHP trait and a method, both emitted with the default kind of their   *)
(* branch.                                                                 *)
C24_Witness ==
    /\ IsChain
    /\ call.chain.tnode = "trait_declaration"
    /\ call.chain.roles[1] = "type"
    /\ call.chain.roles[2] = "function"
    /\ LevelKinds(1) = {"class"}
    /\ LevelKinds(2) = {"function"}

(* The definition at depth k has a name and lies within the depth bound of *)
(* its kind.                                                               *)
Due(p, k) ==
    /\ Named(p, k)
    /\ \/ p.roles[k] = "type" /\ k <= 3
       \/ p.roles[k] = "function" /\ k <= 2

DueSiblings(p) == IF p.siblings THEN { k \in 1..Len(p.roles) : k <= 3 } ELSE {}

Nameless(p) == p.unnamed # 0 /\ p.roles[p.unnamed] # "body"

(* C25: a type or function node with no name child (and no type_spec      *)
(* holding a type_identifier) gives no symbol, and that is the only symbol *)
(* lost: the walk goes on into its children, so every named definition     *)
(* below it within the depth bound is emitted; and the walk goes on into   *)
(* the children of a node that gave a symbol, so a definition due below an *)
(* emitted one is emitted too.                                             *)
C25_NamelessNodeOnlyDropped ==
    IsChain =>
        /\ Nameless(call.chain) =>
              /\ \A i \in DOMAIN result : result[i].line # call.chain.unnamed + 1
              /\ \A k \in 1..Len(call.chain.roles) : Due(call.chain, k) => EmittedLevel(k)
              /\ Len(result) =
                    Cardinality({ k \in 1..Len(call.chain.roles) : Due(call.chain, k) })
                    + Cardinality(DueSiblings(call.chain))
        /\ \A k \in 1..(Len(call.chain.roles) - 1) :
              (EmittedLevel(k) /\ Due(call.chain, k + 1)) => EmittedLevel(k + 1)

(* A type at depth 1 without a name, a named function below it and a named *)
(* sibling type next to it: the function and the sibling are emitted.      *)
C25_Witness ==
    /\ IsChain
    /\ call.chain.unnamed = 1
    /\ call.chain.siblings
    /\ call.chain.roles[1] = "type"
    /\ call.chain.roles[2] = "function"
    /\ call.chain.roles[3] = "type"
    /\ EmittedLevel(2)
    /\ EmittedLevel(3)
    /\ EmittedSibling(2)
    /\ ~EmittedLevel(1)

IsBody == call # Idle /\ "body" \in DOMAIN call

LiteralFirst(d) == d.body # <<>> /\ d.body[1] \in {"doc", "string"}

(* The literal of the i-th statement as a docstring: without surrounding   *)
(* white space, and its first 200 characters and "..." when longer.        *)
Docstring(i, style) ==
    IF style = "long" THEN <<Digit(i)>> \o DocBody(199) \o Marker
    ELSE <<"d", Digit(i)>>

(* C26 as claimed: only the first child of a Python definition's body      *)
(* block is examined; the docstring is the string content of that          *)
(* statement when it is a string literal or an expression statement        *)
(* wrapping one, and absent otherwise, even when a later statement is a    *)
(* string literal; in any other language it is absent.                     *)
C26_FirstStatementContent ==
    IsBody =>
        /\ Len(result) = 1
        /\ (call.body.language = "python" /\ LiteralFirst(call.body))
              => result[1].docstring = Some(LiteralText(1, call.body.style))
        /\ (call.body.language # "python"
              \/ call.body.body = <<>>
              \/ call.body.body[1] \in {"call", "pass", "comment"})
              => result[1].docstring = None

(* C26 amended: only the first child of a Python definition's body block   *)
(* is examined; the docstring is that statement's string content stripped  *)
(* of surrounding white space and cut to 200 characters plus "..." when    *)
(* longer, when the statement is a string literal or an expression         *)
(* statement wrapping a non-empty one, and absent otherwise, even when a   *)
(* later statement is a string literal; in any other language it is        *)
(* absent.                                                                 *)
C26_FirstStatementOnly ==
    IsBody =>
        /\ Len(result) = 1
        /\ result[1].docstring =
              IF call.body.language = "python" /\ LiteralFirst(call.body)
              THEN Some(Docstring(1, call.body.style))
              ELSE None

(* pass, then a string literal: no docstring.                              *)
C26_Witness ==
    /\ IsBody
    /\ call.body.language = "python"
    /\ Len(call.body.body) = 2
    /\ call.body.body[1] = "pass"
    /\ call.body.body[2] = "doc"
    /\ result[1].docstring = None

Analyzed == IsRunAll /\ \E i \in DOMAIN call.trace : call.trace[i] = "analyze_symbols"

(* The tree GitHub serves under the path of a symbol of the analysis.      *)
ServedTree(symbol) ==
    content_at(served(GitHub, state.owner, state.repo), symbol.filepath).tree

(* The symbol was made from a node of the function branch: a node whose    *)
(* type is a function type, and not a type type, of the symbol's language. *)
FromFunctionNode(symbol) ==
    \E k \in DOMAIN Preorder(ServedTree(symbol), 0) :
        /\ ComesFrom(symbol, Preorder(ServedTree(symbol), 0)[k].node, symbol.language)
        /\ Preorder(ServedTree(symbol), 0)[k].node.type
              \in FUNCTION_NODE_TYPES[symbol.language] \ CLASS_NODE_TYPES[symbol.language]

FunctionNodeSymbols(symbols) == { i \in DOMAIN symbols : FromFunctionNode(symbols[i]) }

(* C27: a symbol made in the function branch of the walk has kind          *)
(* function and one made in the type branch has kind class, struct or      *)
(* interface; so in the analysis analyze_symbols stores, total_classes and *)
(* total_functions add up to the number of symbols and total_functions is  *)
(* the number of symbols made from function nodes.  No function node type *)
(* is a key of kind_map and kind_map never gives function.                 *)
C27_KindsPartitionSymbols ==
    Analyzed =>
        /\ \A i \in DOMAIN state.static_analysis.symbols :
              IF FromFunctionNode(state.static_analysis.symbols[i])
              THEN state.static_analysis.symbols[i].kind = "function"
              ELSE state.static_analysis.symbols[i].kind \in {"class", "struct", "interface"}
        /\ state.static_analysis.total_classes + state.static_analysis.total_functions
              = Len(state.static_analysis.symbols)
        /\ state.static_analysis.total_functions
              = Cardinality(FunctionNodeSymbols(state.static_analysis.symbols))
        /\ \A language \in DOMAIN FUNCTION_NODE_TYPES :
              FUNCTION_NODE_TYPES[language] \cap DOMAIN kind_map = {}
        /\ \A node_type \in DOMAIN kind_map : kind_map[node_type] # "function"

(* The analysis of a repository with a file of every registered language:  *)
(* functions and types of all three kinds are counted.                     *)
C27_Witness ==
    /\ Analyzed
    /\ state.repo = "polyglot"
    /\ state.owner = "marcalph"
    /\ available = Languages
    /\ state.static_analysis.total_functions > 20
    /\ state.static_analysis.total_classes > 20
    /\ \E i \in DOMAIN state.static_analysis.symbols :
          state.static_analysis.symbols[i].kind = "struct"
    /\ \E i \in DOMAIN state.static_analysis.symbols :
          state.static_analysis.symbols[i].kind = "interface"

Supplied == IsExtractSymbols /\ call.language.some /\ call.language.val # ""

Relabel(symbols, path) == [ i \in DOMAIN symbols |-> [symbols[i] EXCEPT !.filepath = path] ]

(* What the call under another path, or with another language argument,    *)
(* returns from the state the call was made in.                            *)
Under(path, language) ==
    extract_symbols(call.before, available, call.content, path, language).symbols

(* C28: with a non-empty language argument the extension of the path is    *)
(* not consulted: the result is the same under every path (but for the     *)
(* path recorded), every symbol carries the supplied language, only the    *)
(* parser of the supplied language is asked for, and a language without    *)
(* registry entry gives no symbol; an absent or an empty argument gives    *)
(* what detect_language gives: nothing for an unknown extension, else the  *)
(* result of the call with the detected language supplied.                 *)
C28_SuppliedLanguageWins ==
    IsExtractSymbols =>
        /\ ~call.raised
        /\ Supplied =>
            /\ \A path \in SymbolPaths :
                  result = Relabel(Under(path, call.language), call.file_path)
            /\ \A i \in DOMAIN result :
                  /\ result[i].language = call.language.val
                  /\ result[i].filepath = call.file_path
            /\ DOMAIN parsers \subseteq DOMAIN call.before.parsers \cup {call.language.val}
            /\ \A l \in DOMAIN builds :
                  l # call.language.val => builds[l] = Count(call.before.builds, l)
            /\ call.language.val \in available => call.language.val \in DOMAIN parsers
            /\ call.language.val \notin DOMAIN CLASS_NODE_TYPES => result = <<>>
        /\ ~Supplied =>
            /\ result = Under(call.file_path, None)
            /\ ~detect_language(call.file_path).some =>
                  result = <<>> /\ parsers = call.before.parsers
            /\ detect_language(call.file_path).some =>
                  result = Under(call.file_path, detect_language(call.file_path))

(* python supplied for python text stored under a Go path: the symbols     *)
(* come back as python symbols and no Go parser is made.                   *)
C28_Witness ==
    /\ Supplied
    /\ call.language.val = "python"
    /\ detect_language(call.file_path) = Some("go")
    /\ "go" \in available
    /\ "go" \notin DOMAIN parsers
    /\ Len(result) > 2
    /\ result[1].language = "python"

Skipped(file) == call.exclude_tests /\ _is_test_file(file.path)

Kept(file) == ~Skipped(file)

(* Every file of the call that is in language l is a skipped test file.    *)
OnlySkipped(l) ==
    \A k \in DOMAIN call.files :
        FileLanguage(call.files[k]) = Some(l) => Skipped(call.files[k])

(* C29: extract_symbols does not apply the test-file classifier: for a     *)
(* path _is_test_file flags it returns what it returns for the same        *)
(* content under any path of the same language, flagged or not (but for    *)
(* the path recorded).  extract_from_files skips a flagged file only when  *)
(* exclude_tests is true, and before it detects a language or makes a      *)
(* parser for it: the cache and the calls made to the language pack are    *)
(* those of the same call without the skipped files, and a language that   *)
(* only skipped files are in gets no parser.                               *)
C29_ClassifierOnlyInBatch ==
    /\ (IsExtractSymbols /\ _is_test_file(call.file_path)) =>
          \A path \in SymbolPaths :
              detect_language(path) = detect_language(call.file_path) =>
                  result = Relabel(Under(path, call.language), call.file_path)
    /\ IsExtractFromFiles =>
          /\ \A k \in DOMAIN call.files :
                (_is_test_file(call.files[k].path) /\ ~call.exclude_tests) =>
                    \A j \in DOMAIN Alone(call.files[k]) :
                        \E i \in DOMAIN result : result[i] = Alone(call.files[k])[j]
          /\ parsers = extract_from_files(call.before, available,
                                          SelectSeq(call.files, Kept),
                                          call.exclude_tests).parsers
          /\ builds = extract_from_files(call.before, available,
                                         SelectSeq(call.files, Kept),
                                         call.exclude_tests).builds
          /\ \A l \in GrammarIds :
                OnlySkipped(l) =>
                    /\ Count(builds, l) = Count(call.before.builds, l)
                    /\ l \in DOMAIN parsers <=> l \in DOMAIN call.before.parsers
          /\ (\A k \in DOMAIN call.files : Skipped(call.files[k])) =>
                result = <<>> /\ State = call.before

(* A batch of one Go test file, with exclude_tests=true, on an instance    *)
(* that has no Go parser yet and could make one: nothing is returned and   *)
(* no parser is made.                                                      *)
C29_Witness ==
    /\ IsExtractFromFiles
    /\ call.exclude_tests
    /\ Len(call.files) = 1
    /\ _is_test_file(call.files[1].path)
    /\ FileLanguage(call.files[1]) = Some("go")
    /\ "go" \in available
    /\ "go" \notin DOMAIN parsers
    /\ Alone(call.files[1]) # <<>>
    /\ result = <<>>

Flags == <<"step1_complete", "step2_complete", "step3_complete", "step4_complete">>

Complete(session, k) == has(session, Flags[k]) /\ session[Flags[k]]

(* A run sets the flag of step k only if the flag of step k - 1 was set    *)
(* before the run (for step 1: only if the run has a repository URL), and  *)
(* resets no flag.                                                         *)
FlagsSetInOrder ==
    \A k \in 1..4 :
        /\ Complete(session_state, k) => Complete(session_state', k)
        /\ (~Complete(session_state, k) /\ Complete(session_state', k)) =>
              IF k = 1 THEN call'.repo_url # ""
              ELSE Complete(session_state, k - 1)

FlagsChained ==
    \A k \in 2..4 : Complete(session_state, k) => Complete(session_state, k - 1)

(* C30: in the wizard the flag of step k+1 is set only in a run that finds *)
(* the flag of step k set, the flag of step 1 only in a run with a         *)
(* repository URL entered, and a set flag is never reset; so in every      *)
(* session state step4_complete implies step3_complete implies             *)
(* step2_complete implies step1_complete.                                  *)
C30_WizardStepsInOrder == [][FlagsSetInOrder]_vars /\ []FlagsChained

(* All four steps complete, the text input emptied before step 3 was run.  *)
C30_Witness ==
    /\ Complete(session_state, 4)
    /\ session_state["api_result"].repository = ""
    /\ has(session_state, "html_graph")
    /\ call.repo_url # ""

=============================================================================
